---------------------------- MODULE Spec2Model ----------------------------
(***************************************************************************)
(* Model of the go-nogo-scraper price pipeline (src/server.js and its      *)
(* sibling variants): fetch of the aucfan search page, extraction of the   *)
(* sold listings, ad / outlier filtering, the market report and the        *)
(* purchase evaluation with fee and tax.                                   *)
(*                                                                         *)
(* Strings of the source that are not ASCII are written as ASCII tags; the *)
(* comment next to each tag gives the source string.  Math.round on        *)
(* doubles is modelled by exact round-half-up on rationals; on the price   *)
(* sets enumerated here the double computation yields the same integers.   *)
(***************************************************************************)
EXTENDS Integers, Sequences, FiniteSets, TLC

VARIABLES
  pc,               \* position of the computation being modelled
  body,             \* req.body of POST /api/search: [modelNumber, auctionPrice]
  fetched,          \* outcome of the upstream GET issued by scrapeAucfan
  fetchCount,       \* number of upstream GETs issued for the main search
  results,          \* raw listings: `results` of parseAucfanResults / the filter's argument
  recentResults,    \* `recentResults` of the filter: the 20-listing window
  filteredResults,  \* value returned by filterRecentAndValidPrices
  result,           \* the market report returned by scrapeAucfan
  similarProducts,  \* `similarProducts` of processQuery
  pending,          \* keywords searchSimilarProducts still has to search
  judgment,         \* value returned by evaluatePurchase
  args,             \* arguments of a function that is applied on its own
  response,         \* what the caller receives: HTTP status and payload
  session,          \* login variant: isLoggedIn, loginAttempts, lastLoginAttempt
  requests          \* login variant: the searches being served, one per slot

vars == <<pc, body, fetched, fetchCount, results, recentResults, filteredResults, result,
          similarProducts, pending, judgment, args, response,
          session, requests>>

None == [none |-> TRUE]

-----------------------------------------------------------------------------
(* Arithmetic of the JavaScript source                                     *)

Abs(x) == IF x < 0 THEN -x ELSE x

Min2(a, b) == IF a <= b THEN a ELSE b

Max2(a, b) == IF a >= b THEN a ELSE b

\* Math.round(num / den) for den > 0: the integer nearest to num/den, a tie
\* going towards +Infinity.
MathRound(num, den) == (2 * num + den) \div (2 * den)

\* Math.floor(num / den) for den > 0.
MathFloor(num, den) == num \div den

\* The value JavaScript gives x / 0 for x # 0, kept as a number larger than
\* every finite rate of the model (-Infinity is its negation).
Infinity == 1000000000

-----------------------------------------------------------------------------
(* Purchase evaluation: evaluatePurchase and the cost detail of            *)
(* processQuery (src/server.js, first variant)                             *)

\* The tiers (`decision`): NoData = 判定不可, InsufficientData = 判定困難,
\* Recommended = 仕入れ推奨, Consider = 仕入れ検討, Caution = 慎重検討,
\* Reject = 仕入れNG.
Decisions ==
  {"NoData", "InsufficientData", "Recommended", "Consider", "Caution", "Reject"}

\* Math.round(auctionPrice * 1.155)
InflatedCost(auctionPrice) == MathRound(auctionPrice * 1155, 1000)

\* Math.round((profit / totalCost) * 100); a zero totalCost divides to
\* +Infinity or -Infinity, which Math.round returns unchanged.
ProfitRate(profit, totalCost) ==
  IF totalCost = 0
    THEN (IF profit > 0 THEN Infinity ELSE -Infinity)
    ELSE IF totalCost > 0
      THEN MathRound(100 * profit, totalCost)
      ELSE MathRound(-100 * profit, -totalCost)

\* evaluatePurchase with the tier thresholds excluded (> 50, > 20, > 0).
evaluatePurchaseStrictThresholds(auctionPrice, avgPrice, count) ==
  IF avgPrice = 0 \/ count = 0
    THEN [decision |-> "NoData", reason |-> <<"NoMarketData">>,
          totalCost |-> auctionPrice]
    ELSE IF count < 3
      THEN [decision |-> "InsufficientData", reason |-> <<"TooFewData">>,
            totalCost |-> InflatedCost(auctionPrice)]
      ELSE
        LET totalCost == InflatedCost(auctionPrice)
            profitRate == ProfitRate(avgPrice - totalCost, totalCost)
        IN  [decision |-> IF profitRate > 50 THEN "Recommended"
                          ELSE IF profitRate > 20 THEN "Consider"
                          ELSE IF profitRate > 0 THEN "Caution"
                          ELSE "Reject",
             reason |-> IF profitRate > 0 THEN <<"ProfitRate+", profitRate>>
                        ELSE <<"Loss", Abs(profitRate)>>,
             totalCost |-> totalCost]

\* reason: 相場データなし = <<"NoMarketData">>, データ不足（3件未満） =
\* <<"TooFewData">>, 利益率+N% = <<"ProfitRate+", N>>, 損失N% = <<"Loss", N>>.
evaluatePurchase(auctionPrice, avgPrice, count) ==
  IF avgPrice = 0 \/ count = 0
    THEN [decision |-> "NoData", reason |-> <<"NoMarketData">>,
          totalCost |-> auctionPrice]
    ELSE IF count < 3
      THEN [decision |-> "InsufficientData", reason |-> <<"TooFewData">>,
            totalCost |-> InflatedCost(auctionPrice)]
      ELSE
        LET totalCost == InflatedCost(auctionPrice)
            profit == avgPrice - totalCost
            profitRate == ProfitRate(profit, totalCost)
        IN  IF profitRate >= 50
              THEN [decision |-> "Recommended",
                    reason |-> <<"ProfitRate+", profitRate>>,
                    totalCost |-> totalCost]
              ELSE IF profitRate >= 20
                THEN [decision |-> "Consider",
                      reason |-> <<"ProfitRate+", profitRate>>,
                      totalCost |-> totalCost]
                ELSE IF profitRate >= 0
                  THEN [decision |-> "Caution",
                        reason |-> <<"ProfitRate+", profitRate>>,
                        totalCost |-> totalCost]
                  ELSE [decision |-> "Reject",
                        reason |-> <<"Loss", Abs(profitRate)>>,
                        totalCost |-> totalCost]

\* The cost detail processQuery computes beside the judgment, and the object
\* it returns: the report's fields, the detail, and the judgment with its
\* totalCost overwritten by the detail's.
processQueryResult(report, auctionPrice, similar) ==
  LET jm == evaluatePurchase(auctionPrice, report.avgPrice, report.count)
      handlingFee == MathRound(auctionPrice * 5, 100)
      subtotal == auctionPrice + handlingFee
      consumptionTax == MathRound(subtotal * 10, 100)
      totalCost == subtotal + consumptionTax
      profit == report.avgPrice - totalCost
      profitRate == IF report.avgPrice > 0
                      THEN ProfitRate(report.avgPrice - totalCost, totalCost)
                      ELSE 0
  IN  [query |-> report.query, results |-> report.results,
       count |-> report.count, avgPrice |-> report.avgPrice,
       maxPrice |-> report.maxPrice, minPrice |-> report.minPrice,
       originalCount |-> report.originalCount,
       isLoggedIn |-> report.isLoggedIn,
       auctionPrice |-> auctionPrice, handlingFee |-> handlingFee,
       consumptionTax |-> consumptionTax, totalCost |-> totalCost,
       judgment |-> [jm EXCEPT !.totalCost = totalCost],
       profit |-> profit, profitRate |-> profitRate,
       similarProducts |-> similar]

-----------------------------------------------------------------------------
(* Listings and their titles                                               *)

\* A title is a sequence of atoms, an atom being a run of characters that no
\* keyword of the source splits.  Atoms standing for Japanese text:
\*   shogetsu = 初月, muryou = 無料, getsugaku = 月額, puremiamu = プレミアム,
\*   kaiin = 会員, touroku = 登録, yen = 円, nyuukai = 入会,
\*   ookufan = オークファン, /zeikomi = /税込, puran = プラン,
\*   saabisu = サービス, riyou = 利用, appuguredo = アップグレード,
\*   kakin = 課金, shiharai = 支払い, keesu = ケース.

\* String.prototype.toLowerCase, atom by atom.
LowerAtom(a) ==
  CASE a = "FREE" -> "free"
    [] a = "Aucfan" -> "aucfan"
    [] a = "iPhone" -> "iphone"
    [] a = "Pro" -> "pro"
    [] OTHER -> a

toLowerCase(title) == [i \in 1..Len(title) |-> LowerAtom(title[i])]

\* String.prototype.includes: keyword occurs in title as a contiguous run.
includes(title, keyword) ==
  \E i \in 1..(Len(title) - Len(keyword) + 1) :
    SubSeq(title, i, i + Len(keyword) - 1) = keyword

\* Array.prototype.slice(from, to) on a sequence (0-based, `to` exclusive).
slice(seq, from, to) == SubSeq(seq, from + 1, Min2(to, Len(seq)))

RECURSIVE InsertAsc(_, _)
InsertAsc(sorted, x) ==
  IF sorted = <<>> THEN <<x>>
  ELSE IF x < Head(sorted) THEN <<x>> \o sorted
  ELSE <<Head(sorted)>> \o InsertAsc(Tail(sorted), x)

\* prices.sort((a, b) => a - b)
RECURSIVE SortAsc(_)
SortAsc(seq) ==
  IF seq = <<>> THEN <<>>
  ELSE InsertAsc(SortAsc(SubSeq(seq, 1, Len(seq) - 1)), seq[Len(seq)])

\* results.map(r => r.price)
Prices(listings) == [i \in 1..Len(listings) |-> listings[i].price]

-----------------------------------------------------------------------------
(* filterRecentAndValidPrices, first variant (src/server.js 96-166)        *)

\* adKeywords of the first variant, in the source's order: 初月無料, 月額,
\* プレミアム, 会員, 登録, 2200円, 998円, 入会, オークファン, aucfan, 無料,
\* free, 円/税込, プラン, サービス, 利用, アップグレード, 課金, 支払い.
adKeywords ==
  << <<"shogetsu", "muryou">>, <<"getsugaku">>, <<"puremiamu">>, <<"kaiin">>,
     <<"touroku">>, <<"2200", "yen">>, <<"998", "yen">>, <<"nyuukai">>,
     <<"ookufan">>, <<"aucfan">>, <<"muryou">>, <<"free">>,
     <<"yen", "/zeikomi">>, <<"puran">>, <<"saabisu">>, <<"riyou">>,
     <<"appuguredo">>, <<"kakin">>, <<"shiharai">> >>

\* hasAdKeyword with the title compared as written, not lower-cased.
hasAdKeywordCaseSensitive(item) ==
  \E k \in 1..Len(adKeywords) : includes(item.title, adKeywords[k])

\* adKeywords.some(keyword => title.includes(keyword)), title lower-cased
hasAdKeyword(item) ==
  \E k \in 1..Len(adKeywords) : includes(toLowerCase(item.title), adKeywords[k])

\* const isTooLowPrice = price < 500
isTooLowPrice(item) == item.price < 500

\* adFilter storing the lower-cased title back into each listing it keeps.
adFilterLowerCasing(listings) ==
  LET kept == SelectSeq(listings,
                        LAMBDA item : ~(hasAdKeyword(item) \/ isTooLowPrice(item)))
  IN  [i \in 1..Len(kept) |-> [kept[i] EXCEPT !.title = toLowerCase(kept[i].title)]]

\* Stage 1: results.filter(item => !(hasAdKeyword || isTooLowPrice))
adFilter(listings) ==
  SelectSeq(listings, LAMBDA item : ~(hasAdKeyword(item) \/ isTooLowPrice(item)))

\* iqrBounds taking the median for the third quartile.
iqrBoundsMedianAsQ3(recent) ==
  LET prices == SortAsc(Prices(recent))
      q1Index == MathFloor(Len(prices) * 25, 100)
      q3Index == MathFloor(Len(prices) * 50, 100)
      q1 == prices[q1Index + 1]
      q3 == prices[q3Index + 1]
      iqr == q3 - q1
  IN  [q1 |-> q1, q3 |-> q3,
       lower2 |-> Max2(2 * 500, 2 * q1 - 3 * iqr),
       upper2 |-> 2 * q3 + 3 * iqr]

\* Stage 3 of the first variant on the window `recentResults` (length >= 5):
\* index quartiles of the sorted prices and the bounds, kept doubled so that
\* iqr * 1.5 stays an integer: lower2 = 2 * Math.max(500, q1 - iqr * 1.5),
\* upper2 = 2 * (q3 + iqr * 1.5).
iqrBounds(recent) ==
  LET prices == SortAsc(Prices(recent))
      q1Index == MathFloor(Len(prices) * 25, 100)
      q3Index == MathFloor(Len(prices) * 75, 100)
      q1 == prices[q1Index + 1]
      q3 == prices[q3Index + 1]
      iqr == q3 - q1
  IN  [q1 |-> q1, q3 |-> q3,
       lower2 |-> Max2(2 * 500, 2 * q1 - 3 * iqr),
       upper2 |-> 2 * q3 + 3 * iqr]

\* The range filter with its ends excluded (price > lowerBound && price < upperBound).
outlierFilterExcludingEnds(recent, b) ==
  SelectSeq(recent,
            LAMBDA item : 2 * item.price > b.lower2 /\ 2 * item.price < b.upper2)

\* recentResults.filter(item => item.price >= lowerBound && item.price <= upperBound)
outlierFilter(recent, b) ==
  SelectSeq(recent,
            LAMBDA item : 2 * item.price >= b.lower2 /\ 2 * item.price <= b.upper2)

\* recentWindow starting one listing late.
recentWindowOffByOne(filtered) == slice(filtered, 1, 20)

\* recentWindow one listing too long.
recentWindowOfTwentyOne(filtered) == slice(filtered, 0, 21)

\* Stage 2: const recentResults = filtered.slice(0, 20)
recentWindow(filtered) == slice(filtered, 0, 20)

filterRecentAndValidPrices(listings) ==
  IF Len(listings) = 0 THEN listings
  ELSE
    LET filtered == adFilter(listings)
        recent == recentWindow(filtered)
    IN  IF Len(recent) >= 5
          THEN LET finalResults == outlierFilter(recent, iqrBounds(recent))
               IN  IF Len(finalResults) > 0 THEN finalResults
                   ELSE slice(recent, 0, 10)
          ELSE recent

-----------------------------------------------------------------------------
(* filterRecentAndValidPrices, login variant (src/server.js 1266-1334)     *)

\* adKeywords of the login variant: 初月無料, 月額, プレミアム, 会員, 登録,
\* 2200円, 998円, 入会, オークファン, aucfan, 無料, free.
adKeywordsLogin == SubSeq(adKeywords, 1, 12)

hasAdKeywordLogin(item) ==
  \E k \in 1..Len(adKeywordsLogin) :
    includes(toLowerCase(item.title), adKeywordsLogin[k])

\* Stage 1: results.filter(item => !(price < 100 || hasAdKeyword))
adFilterLogin(listings) ==
  SelectSeq(listings, LAMBDA item : ~(item.price < 100 \/ hasAdKeywordLogin(item)))

\* new Date(date) as a day count; the dates of the model are the valid date
\* strings "2024/01/05" and "2024/03/01", and "" is the missing date.
DateValue(date) ==
  CASE date = "2024/01/05" -> 20240105
    [] date = "2024/03/01" -> 20240301
    [] OTHER -> 0

\* The comparator of filtered.sort: new Date(b.date) - new Date(a.date) when
\* both dates are present, 0 otherwise.
dateCompare(a, b) ==
  IF a.date # "" /\ b.date # "" THEN DateValue(b.date) - DateValue(a.date) ELSE 0

\* The comparator is a consistent comparator for the elements of seq (its
\* "equal" relation is transitive) unless an undated listing stands beside
\* two listings of different dates.
ConsistentComparator(seq) ==
  LET dates == {seq[i].date : i \in 1..Len(seq)}
  IN  ~("" \in dates /\ Cardinality(dates \ {""}) >= 2)

\* The stable sort by dateCompare (most recent first) under a consistent
\* comparator: a listing comes after those the comparator puts before it and
\* after the earlier ones it compares equal to.
StableSortByDate(seq) ==
  LET n == Len(seq)
      before(i) == {j \in 1..n : \/ dateCompare(seq[j], seq[i]) < 0
                                 \/ dateCompare(seq[j], seq[i]) = 0 /\ j < i}
      ranked == {<<1 + Cardinality(before(i)), i>> : i \in 1..n}
  IN  [p \in 1..n |-> seq[(CHOOSE r \in ranked : r[1] = p)[2]]]

\* Every rearrangement of seq.
Rearrangements(seq) ==
  {[i \in 1..Len(seq) |-> seq[p[i]]] : p \in Permutations(1..Len(seq))}

\* The orders Array.prototype.sort may leave: the stable sorted order for a
\* consistent comparator; for an inconsistent one the order is
\* implementation-defined, so any rearrangement.
sortByDate(seq) ==
  IF ConsistentComparator(seq) THEN {StableSortByDate(seq)}
  ELSE Rearrangements(seq)

\* Stage 4 of the login variant: the bounds carry no floor.
iqrBoundsLogin(recent) ==
  LET prices == SortAsc(Prices(recent))
      q1Index == MathFloor(Len(prices) * 25, 100)
      q3Index == MathFloor(Len(prices) * 75, 100)
      q1 == prices[q1Index + 1]
      q3 == prices[q3Index + 1]
      iqr == q3 - q1
  IN  [q1 |-> q1, q3 |-> q3,
       lower2 |-> 2 * q1 - 3 * iqr,
       upper2 |-> 2 * q3 + 3 * iqr]

\* The login variant after its sort: the 20-listing window and stage 4.
filterSortedLogin(sorted) ==
  LET recent == slice(sorted, 0, 20)
  IN  IF Len(recent) >= 5
        THEN LET finalResults == outlierFilter(recent, iqrBoundsLogin(recent))
             IN  IF Len(finalResults) > 0 THEN finalResults
                 ELSE slice(recent, 0, 10)
        ELSE recent

\* filterRecentAndValidPrices of the login variant, `sorted` being the order
\* in which filtered.sort left the listings that passed stage 1.
filterRecentAndValidPricesLogin(listings, sorted) ==
  IF Len(listings) = 0 THEN listings ELSE filterSortedLogin(sorted)

-----------------------------------------------------------------------------
(* The market report (src/server.js 449-475 and 1570-1595) and the        *)
(* reply of the browser-based scrapeHandler (src/unnamed/part_005 26-29)   *)

RECURSIVE Sum(_)
\* prices.reduce((sum, price) => sum + price, 0)
Sum(seq) == IF seq = <<>> THEN 0 ELSE Head(seq) + Sum(Tail(seq))

\* Math.max(...prices) and Math.min(...prices) of a non-empty sequence
MaxOf(seq) == CHOOSE x \in {seq[i] : i \in 1..Len(seq)} :
                \A j \in 1..Len(seq) : seq[j] <= x

MinOf(seq) == CHOOSE x \in {seq[i] : i \in 1..Len(seq)} :
                \A j \in 1..Len(seq) : seq[j] >= x

\* The report with the minimum folded from 0 (Math.min(0, ...prices)).
marketReportMinFromZero(query, filtered, originalCount, loggedIn) ==
  LET prices == Prices(filtered)
      nonEmpty == Len(filtered) > 0
  IN  [query |-> query,
       results |-> filtered,
       count |-> Len(filtered),
       avgPrice |-> IF nonEmpty THEN MathRound(Sum(prices), Len(prices)) ELSE 0,
       maxPrice |-> IF nonEmpty THEN MaxOf(prices) ELSE 0,
       minPrice |-> IF nonEmpty THEN Min2(0, MinOf(prices)) ELSE 0,
       originalCount |-> originalCount,
       isLoggedIn |-> loggedIn]

\* The object parseAucfanResults returns for the filtered listings.
marketReport(query, filtered, originalCount, loggedIn) ==
  LET prices == Prices(filtered)
      nonEmpty == Len(filtered) > 0
  IN  [query |-> query,
       results |-> filtered,
       count |-> Len(filtered),
       avgPrice |-> IF nonEmpty THEN MathRound(Sum(prices), Len(prices)) ELSE 0,
       maxPrice |-> IF nonEmpty THEN MaxOf(prices) ELSE 0,
       minPrice |-> IF nonEmpty THEN MinOf(prices) ELSE 0,
       originalCount |-> originalCount,
       isLoggedIn |-> loggedIn]

\* The reply of scrapeHandler for the prices read off the page.
scrapeHandlerReply(prices) ==
  IF Len(prices) = 0 THEN [avg |-> 0, count |-> 0]
  ELSE [avg |-> MathFloor(Sum(prices), Len(prices)), count |-> Len(prices)]

-----------------------------------------------------------------------------
(* Inputs of the filter                                                    *)

\* 初月無料プレミアム会員登録
TitleAd == <<"shogetsu", "muryou", "puremiamu", "kaiin", "touroku">>

TitleItem == <<"iPhone", "13", "Pro">>

\* An advertisement keyword in upper case: only the lower-cased title holds it.
TitleUpperAd == <<"FREE", "keesu">>

Listing(title, price, date, platform) ==
  [title |-> title, price |-> price, date |-> date,
   url |-> "https://aucfan.com/item", imageURL |-> "", platform |-> platform]

\* メルカリ = "mercari", ヤフオク = "yahoo"
ListingPool ==
  { Listing(TitleItem, 1000, "2024/01/05", "mercari"),
    Listing(TitleItem, 1200, "2024/03/01", "yahoo"),
    Listing(TitleItem, 50000, "", "mercari"),
    Listing(TitleItem, 499, "2024/03/01", "yahoo"),
    Listing(TitleUpperAd, 3000, "", "yahoo") }

\* Longest input drawn freely from the pool.
MaxLen == 5

\* Longest tail appended to a run that fills the 20-listing window.
MaxTail == 2

\* Longest input on which the login variant's sort is followed through every
\* order an inconsistent comparator may leave.
MaxMixed == 4

SeqsUpTo(S, n) == UNION {[1..k -> S] : k \in 0..n}

\* Listings with the prices of a sequence of prices.
Priced(prices) ==
  [i \in 1..Len(prices) |-> Listing(TitleItem, prices[i], "", "mercari")]

ScenarioA == Priced(<<1000, 1200, 1100, 50000, 1050>>)

ScenarioD == Listing(TitleAd, 2200, "", "mercari")

\* Scenario inputs: the five prices 1000, 1200, 1100, 50000, 1050, and the
\* advertisement of 2200 alone and among valid listings.
ScenarioInputs ==
  { ScenarioA,
    <<ScenarioD>>,
    <<ScenarioD>> \o Priced(<<1000, 1200>>),
    Priced(<<1000, 1200>>) \o <<ScenarioD>> \o Priced(<<1100, 1050, 50000>>) }

\* Runs of one listing about as long as the window, followed by a short tail.
WindowInputs ==
  { [i \in 1..k |-> Listing(TitleItem, 1000, "2024/01/05", "mercari")] \o tail :
      k \in {18, 19, 20}, tail \in SeqsUpTo(ListingPool, MaxTail) }

FilterInputs == SeqsUpTo(ListingPool, MaxLen) \cup ScenarioInputs \cup WindowInputs

-----------------------------------------------------------------------------
(* The tail of parseAucfanResults applied on its own: filter, then report  *)

InitFilter ==
  /\ pc = "extracted"
  /\ results \in FilterInputs
  /\ args = [query |-> "iPhone 13 Pro", results |-> results]
  /\ recentResults = None /\ filteredResults = None
  /\ body = None /\ fetched = None /\ fetchCount = 0 /\ result = None
  /\ similarProducts = <<>> /\ pending = <<>> /\ judgment = None
  /\ response = None
  /\ session = None /\ requests = None

\* parseAucfanResults of the first variant from the call of the filter on
ParseTail ==
  /\ pc = "extracted"
  /\ LET filtered == filterRecentAndValidPrices(results)
     IN  /\ filteredResults' = filtered
         /\ result' = marketReport(args.query, filtered, Len(results), FALSE)
  /\ recentResults' = recentWindow(adFilter(results))
  /\ pc' = "reported"
  /\ UNCHANGED <<body, fetched, fetchCount, results, similarProducts,
                 pending, judgment, args, response>>
  /\ UNCHANGED <<session, requests>>

\* parseAucfanResults of the login variant from the call of the filter on
ParseTailLogin ==
  /\ pc = "extracted"
  /\ Len(results) <= MaxMixed \/ ConsistentComparator(adFilterLogin(results))
  /\ \E sorted \in sortByDate(adFilterLogin(results)) :
       LET filtered == filterRecentAndValidPricesLogin(results, sorted)
       IN  /\ filteredResults' = filtered
           /\ result' = marketReport(args.query, filtered, Len(results), TRUE)
           /\ recentResults' = slice(sorted, 0, 20)
  /\ pc' = "reportedLogin"
  /\ UNCHANGED <<body, fetched, fetchCount, results, similarProducts,
                 pending, judgment, args, response>>
  /\ UNCHANGED <<session, requests>>

\* scrapeHandler (puppeteer) replying for the prices of the page, here the
\* prices of the listings
ScrapeHandler ==
  /\ pc = "extracted"
  /\ result' = scrapeHandlerReply(Prices(results))
  /\ pc' = "handled"
  /\ UNCHANGED <<body, fetched, fetchCount, results, recentResults,
                 filteredResults, similarProducts, pending, judgment, args,
                 response>>
  /\ UNCHANGED <<session, requests>>

NextFilter == ParseTail \/ ParseTailLogin \/ ScrapeHandler

SpecFilter == InitFilter /\ [][NextFilter]_vars

-----------------------------------------------------------------------------
(* evaluatePurchase applied on its own                                     *)

EvalPrices == {-5, 0, 1, 4, 90, 1000, 10000, 80000}

\* Market averages around the tier thresholds of the cost 1155 of the price
\* 1000 (rates -1, 0, 19, 20, 49, 50), the scenario's 9000, and 0.
EvalAverages == {0, 1149, 1150, 1380, 1381, 1726, 1727, 9000, 150000}

MaxCount == 5

InitEval ==
  /\ pc = "called"
  /\ args \in [auctionPrice : EvalPrices, avgPrice : EvalAverages,
               count : 0..MaxCount]
  /\ judgment = None
  /\ body = None /\ fetched = None /\ fetchCount = 0 /\ result = None
  /\ results = <<>> /\ recentResults = None /\ filteredResults = None
  /\ similarProducts = <<>> /\ pending = <<>> /\ response = None
  /\ session = None /\ requests = None

Evaluate ==
  /\ pc = "called"
  /\ judgment' = evaluatePurchase(args.auctionPrice, args.avgPrice, args.count)
  /\ pc' = "returned"
  /\ UNCHANGED <<body, fetched, fetchCount, results, recentResults,
                 filteredResults, result, similarProducts, pending, args,
                 response>>
  /\ UNCHANGED <<session, requests>>

NextEval == Evaluate

SpecEval == InitEval /\ [][NextEval]_vars

-----------------------------------------------------------------------------
(* Extraction of the listings from the fetched page (parseAucfanResults)   *)

\* An element of the page as the extraction reads it: whether its text names
\* メルカリ, メルカリShops, ヤフオク / Yahoo, ショッピング; the text of its
\* title candidate; the numbers of the matches of N円 in text order, as
\* extractPrice returns them; the date matched in its text ("" when none).
Element(mercari, shops, yahoo, shopping, title, priceMatches, date) ==
  [mercari |-> mercari, shops |-> shops, yahoo |-> yahoo,
   shopping |-> shopping, title |-> title, priceMatches |-> priceMatches,
   date |-> date]

\* The number of characters of an atom of a title; an atom without an entry
\* is a single character.
AtomLength(a) ==
  CASE a = "iPhone" -> 6
    [] a = "13" -> 2
    [] a = "Pro" -> 3
    [] a = "FREE" -> 4
    [] a = "keesu" -> 3
    [] a = "shogetsu" -> 2
    [] a = "muryou" -> 2
    [] a = "puremiamu" -> 5
    [] a = "kaiin" -> 2
    [] a = "touroku" -> 2
    [] OTHER -> 1

\* title.length
TitleLength(title) ==
  Cardinality(UNION {{i} \X (1..AtomLength(title[i])) : i \in 1..Len(title)})

\* title.substring(0, n): the atoms that fit in the first n characters (the
\* titles cut by the model are made of single characters).
substring(title, n) ==
  LET fits == {k \in 0..Len(title) : TitleLength(SubSeq(title, 1, k)) <= n}
  IN  SubSeq(title, 1, CHOOSE k \in fits : \A j \in fits : j <= k)

\* The first title candidate longer than 5 and shorter than 200 characters,
\* <<>> when there is none.
titleCandidate(el) ==
  IF TitleLength(el.title) > 5 /\ TitleLength(el.title) < 200 THEN el.title
  ELSE <<>>

\* The first match above 500 and below 10000000, 0 when there is none.
firstPriceInRange(priceMatches) ==
  LET ok == SelectSeq(priceMatches, LAMBDA m : m > 500 /\ m < 10000000)
  IN  IF ok = <<>> THEN 0 ELSE Head(ok)

containsMercari(el) == el.mercari /\ ~el.shops

\* Whether the pass over the selector's elements pushes a listing for el.
isExtracted(el) ==
  /\ ~((~containsMercari(el) /\ ~el.yahoo) \/ el.shopping)
  /\ titleCandidate(el) # <<>> /\ TitleLength(titleCandidate(el)) > 3
  /\ firstPriceInRange(el.priceMatches) > 500

extractedListing(el) ==
  Listing(substring(titleCandidate(el), 100),
          firstPriceInRange(el.priceMatches), el.date,
          IF containsMercari(el) THEN "mercari" ELSE "yahoo")

\* Whether the fallback pass pushes a listing for el.
isExtractedByFallback(el) ==
  /\ el.mercari \/ el.yahoo
  /\ ~(el.shopping \/ el.shops)
  /\ firstPriceInRange(el.priceMatches) > 0
  /\ titleCandidate(el) # <<>>

fallbackListing(el) ==
  [title |-> substring(titleCandidate(el), 100),
   price |-> firstPriceInRange(el.priceMatches),
   date |-> "", url |-> "", imageURL |-> "",
   platform |-> IF el.mercari THEN "mercari" ELSE "yahoo"]

\* One pass of elements.each over the elements a selector matches: it stops
\* collecting at 100 listings.
selectorPass(elements) ==
  LET picked == SelectSeq(elements, isExtracted)
  IN  slice([i \in 1..Len(picked) |-> extractedListing(picked[i])], 0, 100)

\* The passes of all selectors one after the other, without the break.
selectorLoopWithoutBreak(selectors) ==
  LET all == [k \in 1..Len(selectors) |-> selectorPass(selectors[k])]
      Concat[k \in 0..Len(selectors)] ==
        IF k = 0 THEN <<>> ELSE Concat[k - 1] \o all[k]
  IN  slice(Concat[Len(selectors)], 0, 100)

RECURSIVE selectorLoop(_)
\* for (const selector of selectors): the listings of the first selector
\* whose pass pushes any.
selectorLoop(selectors) ==
  IF selectors = <<>> THEN <<>>
  ELSE LET pushed == selectorPass(Head(selectors))
       IN  IF Len(pushed) > 0 THEN pushed ELSE selectorLoop(Tail(selectors))

RECURSIVE Flatten(_)
Flatten(seqs) == IF seqs = <<>> THEN <<>> ELSE Head(seqs) \o Flatten(Tail(seqs))

\* The fallback pass over the elements naming a platform: it stops at 50.
fallbackPass(elements) ==
  LET loose == SelectSeq(elements, isExtractedByFallback)
  IN  slice([i \in 1..Len(loose) |-> fallbackListing(loose[i])], 0, 50)

\* `results` of parseAucfanResults before the filter, for a page given by the
\* elements each selector matches (in the order of the selector list) and the
\* other elements naming a platform.
extractPage(page) ==
  LET structured == selectorLoop(page.selectors)
  IN  IF Len(structured) = 0
        THEN fallbackPass(Flatten(page.selectors) \o page.loose)
        ELSE structured

\* `results` for a page whose elements are all matched by the first selector.
extractListings(doc) ==
  extractPage([selectors |-> <<doc.elements>>, loose |-> <<>>])

parseAucfanResults(doc, query) ==
  LET extracted == extractListings(doc)
  IN  marketReport(query, filterRecentAndValidPrices(extracted),
                   Len(extracted), FALSE)

\* The report scrapeAucfan returns for a page holding
\* 検索結果が見つかりません or 該当する商品が見つかりません.
noResultsReport(query) ==
  [query |-> query, results |-> <<>>, count |-> 0, avgPrice |-> 0,
   maxPrice |-> 0, minPrice |-> 0, originalCount |-> 0, isLoggedIn |-> FALSE]

\* scrapeAucfan on the page of its first GET.
scrapePage(doc, query) ==
  IF doc.noResultsMarker THEN noResultsReport(query)
  ELSE parseAucfanResults(doc, query)

-----------------------------------------------------------------------------
(* Keywords of the similar-product search                                  *)

\* A product name is the sequence of its words (split at blanks).
\* word.length
WordLength(word) ==
  CASE word = "iPhone" -> 6
    [] word = "13" -> 2
    [] word = "Pro" -> 3
    [] word = "ABC123" -> 6
    [] word = "GUCCI" -> 5
    [] word = "bag" -> 3
    [] OTHER -> 0

\* The matches of /[A-Z0-9]{3,}/g in a word.
ModelMatches(word) ==
  IF word \in {"ABC123", "GUCCI"} THEN << <<word>> >> ELSE <<>>

RECURSIVE FlatMatches(_)
FlatMatches(words) ==
  IF words = <<>> THEN <<>>
  ELSE ModelMatches(Head(words)) \o FlatMatches(Tail(words))

brands == <<"LOUIS VUITTON", "CHANEL", "HERMES", "GUCCI", "PRADA">>

categories == <<"bag", "wallet", "watch", "iPhone", "iPad">>

\* Array.prototype.find over the words of the name: the first entry of list
\* that the name holds ("" for undefined, when there is none).
findIn(list, words) ==
  LET hits == SelectSeq(list, LAMBDA e : \E i \in 1..Len(words) : words[i] = e)
  IN  IF hits = <<>> THEN "" ELSE Head(hits)

RECURSIVE Dedupe(_)
\* [...new Set(keywords)]: first occurrences, in order.
Dedupe(seq) ==
  IF seq = <<>> THEN <<>>
  ELSE LET front == Dedupe(SubSeq(seq, 1, Len(seq) - 1))
           last == seq[Len(seq)]
       IN  IF \E i \in 1..Len(front) : front[i] = last THEN front
           ELSE Append(front, last)

\* extractKeywords without its cut to 3 keywords.
extractKeywordsUncut(productName) ==
  LET brandMatch == findIn(brands, productName)
      categoryMatch == findIn(categories, productName)
      combined == IF brandMatch # "" /\ categoryMatch # ""
                    THEN << <<brandMatch, categoryMatch>> >> ELSE <<>>
      models == FlatMatches(productName)
      important == SelectSeq(productName, LAMBDA w : WordLength(w) >= 3)
      importantWords == [i \in 1..Len(important) |-> <<important[i]>>]
  IN  Dedupe(combined \o models \o slice(importantWords, 0, 2))

extractKeywords(productName) ==
  LET brandMatch == findIn(brands, productName)
      categoryMatch == findIn(categories, productName)
      combined == IF brandMatch # "" /\ categoryMatch # ""
                    THEN << <<brandMatch, categoryMatch>> >> ELSE <<>>
      models == FlatMatches(productName)
      important == SelectSeq(productName, LAMBDA w : WordLength(w) >= 3)
      importantWords == [i \in 1..Len(important) |-> <<important[i]>>]
  IN  slice(Dedupe(combined \o models \o slice(importantWords, 0, 2)), 0, 3)

\* The keywords searchSimilarProducts searches: all but the original query.
similarKeywords(originalQuery) ==
  SelectSeq(extractKeywords(originalQuery), LAMBDA k : k # originalQuery)

-----------------------------------------------------------------------------
(* The request pipeline: POST /api/search -> processQuery -> scrapeAucfan  *)
(* -> searchSimilarProducts -> evaluatePurchase                            *)

\* A JSON value of the request body.
Undefined == [type |-> "undefined"]

Num(n) == [type |-> "number", value |-> n]

\* A string, as the sequence of its characters.
Str(chars) == [type |-> "string", value |-> chars]

\* !v of JavaScript
isFalsy(v) ==
  \/ v.type = "undefined"
  \/ v.type = "number" /\ v.value = 0
  \/ v.type = "string" /\ v.value = <<>>

Digits == {"0", "1", "2", "3", "4", "5", "6", "7", "8", "9"}

DigitValue(c) ==
  CASE c = "0" -> 0 [] c = "1" -> 1 [] c = "2" -> 2 [] c = "3" -> 3
    [] c = "4" -> 4 [] c = "5" -> 5 [] c = "6" -> 6 [] c = "7" -> 7
    [] c = "8" -> 8 [] c = "9" -> 9

RECURSIVE LeadingDigits(_, _)
\* The number the leading decimal digits of chars continue acc to.
LeadingDigits(chars, acc) ==
  IF chars = <<>> \/ Head(chars) \notin Digits THEN acc
  ELSE LeadingDigits(Tail(chars), 10 * acc + DigitValue(Head(chars)))

\* parseInt of a number, or of a string that starts with an optional sign and
\* a decimal digit: the digits up to the first other character.
parseInt(v) ==
  IF v.type = "number" THEN v.value
  ELSE IF Head(v.value) = "-" THEN -LeadingDigits(Tail(v.value), 0)
  ELSE LeadingDigits(v.value, 0)

ModelNumbers ==
  { <<>>, <<"iPhone", "13", "Pro">>, <<"ABC123">>, <<"GUCCI", "bag", "ABC123">> }

AuctionPrices ==
  { Undefined, Num(0), Str(<<>>), Str(<<"0">>), Str(<<"-", "5">>), Num(4),
    Str(<<"9", "0">>), Num(957), Num(10000) }

ItemElement(price, platform) ==
  Element(platform = "mercari", FALSE, platform = "yahoo", FALSE, TitleItem,
          <<price>>, "2024/03/01")

\* The pages the upstream can answer with.
Docs ==
  { [noResultsMarker |-> TRUE, elements |-> <<>>],
    [noResultsMarker |-> TRUE, elements |-> <<ItemElement(1000, "mercari")>>],
    [noResultsMarker |-> FALSE, elements |-> <<>>],
    [noResultsMarker |-> FALSE,
     elements |-> << Element(TRUE, FALSE, FALSE, FALSE, TitleAd, <<2200>>, ""),
                     Element(TRUE, TRUE, FALSE, FALSE, TitleItem, <<3000>>, ""),
                     Element(FALSE, FALSE, TRUE, TRUE, TitleItem, <<3000>>, ""),
                     Element(FALSE, FALSE, TRUE, FALSE, TitleItem, <<300, 500>>, "") >>],
    [noResultsMarker |-> FALSE,
     elements |-> << ItemElement(1000, "mercari") >>],
    [noResultsMarker |-> FALSE,
     elements |-> << ItemElement(1000, "mercari"), ItemElement(1200, "yahoo"),
                     Element(FALSE, FALSE, TRUE, FALSE, TitleItem, <<300, 1100>>, "") >>],
    [noResultsMarker |-> FALSE,
     elements |-> << ItemElement(1000, "mercari"), ItemElement(1200, "yahoo"),
                     ItemElement(1100, "mercari"), ItemElement(50000, "yahoo"),
                     ItemElement(1050, "mercari") >>],
    [noResultsMarker |-> FALSE,
     elements |-> << ItemElement(1000, "mercari"), ItemElement(1200, "yahoo"),
                     ItemElement(1100, "mercari"), ItemElement(1200, "yahoo"),
                     ItemElement(1050, "mercari"), ItemElement(1000, "yahoo") >>] }

\* What a GET of the search page ends with: a response with a status the
\* client accepts (200 to 399) and a page, or an error whose message names a
\* redirect ("Maximum number of redirects exceeded") or does not ("timeout").
GetOutcomes ==
  [kind : {"response"}, status : {200}, doc : Docs]
    \cup { [kind |-> "response", status |-> 304,
            doc |-> [noResultsMarker |-> FALSE, elements |-> <<>>]],
           [kind |-> "error", message |-> "redirect"],
           [kind |-> "error", message |-> "timeout"] }

\* maxRedirects of the GET sent at a position of scrapeAucfan: 3 for the
\* first GET, 0 (redirects disabled) for the retry.
maxRedirects(at) == IF at \in {"retrying", "similarRetrying"} THEN 0 ELSE 3

\* What the GET sent at a position can end with: with redirects disabled the
\* client follows none, so it cannot exceed their maximum number.
GetOutcomesAt(at) ==
  IF maxRedirects(at) = 0
    THEN GetOutcomes \ {[kind |-> "error", message |-> "redirect"]}
    ELSE GetOutcomes

\* mentionsRedirect on every message.
mentionsRedirectAlways(message) == TRUE

\* error.message.includes('redirect')
mentionsRedirect(message) == message = "redirect"

Init ==
  /\ pc = "request"
  /\ body \in [modelNumber : ModelNumbers, auctionPrice : AuctionPrices]
  /\ args = None /\ fetched = None /\ fetchCount = 0
  /\ results = <<>> /\ recentResults = None /\ filteredResults = None
  /\ result = None /\ similarProducts = <<>> /\ pending = <<>>
  /\ judgment = None /\ response = None
  /\ session = None /\ requests = None

\* app.post('/api/search'): the check of the body, then processQuery up to
\* the GET of scrapeAucfan.
ApiSearch ==
  /\ pc = "request"
  /\ IF body.modelNumber = <<>> \/ isFalsy(body.auctionPrice)
       THEN /\ response' = [status |-> 400, error |-> "MissingParameters"]
            /\ pc' = "done"
            /\ UNCHANGED <<args, fetchCount>>
       ELSE /\ args' = [modelNumber |-> body.modelNumber,
                        auctionPrice |-> parseInt(body.auctionPrice)]
            /\ fetchCount' = fetchCount + 1
            /\ pc' = "scraping"
            /\ UNCHANGED response
  /\ UNCHANGED <<body, fetched, results, recentResults, filteredResults,
                 result, similarProducts, pending, judgment>>
  /\ UNCHANGED <<session, requests>>

\* The rest of processQuery for a report without a similar-product search
\* left to do: the judgment, the cost detail and res.json(result).
Respond(report, similar) ==
  /\ judgment' = evaluatePurchase(args.auctionPrice, report.avgPrice, report.count)
  /\ response' = [status |-> 200,
                  body |-> processQueryResult(report, args.auctionPrice, similar)]
  /\ similarProducts' = similar
  /\ pending' = <<>>
  /\ pc' = "done"

\* processQuery once scrapeAucfan has returned report.
AfterScrape(report) ==
  /\ result' = report
  /\ IF report.count < 5 /\ similarKeywords(args.modelNumber) # <<>>
       THEN /\ pending' = similarKeywords(args.modelNumber)
            /\ similarProducts' = <<>>
            /\ fetchCount' = fetchCount + 1
            /\ pc' = "similar"
            /\ UNCHANGED <<judgment, response>>
       ELSE /\ Respond(report, <<>>)
            /\ UNCHANGED fetchCount

\* The error scrapeAucfan throws reaches the handler: status 500.
Fail(message) ==
  /\ response' = [status |-> 500, error |-> <<"ScrapeFailed", message>>]
  /\ pc' = "done"
  /\ UNCHANGED <<results, recentResults, filteredResults, result,
                 similarProducts, pending, judgment, fetchCount>>

\* The listings, the window and the filter's value for the page parsed.
Parsed(doc) ==
  /\ results' = extractListings(doc)
  /\ recentResults' = recentWindow(adFilter(extractListings(doc)))
  /\ filteredResults' = filterRecentAndValidPrices(extractListings(doc))

\* scrapeAucfan of the main search: the first GET ends.
ScrapeResponse ==
  /\ pc = "scraping"
  /\ \E outcome \in GetOutcomes :
       /\ fetched' = outcome
       /\ IF outcome.kind = "response"
            THEN IF outcome.status # 200
                   THEN Fail("HTTPError")
                   ELSE /\ AfterScrape(scrapePage(outcome.doc, args.modelNumber))
                        /\ IF outcome.doc.noResultsMarker
                             THEN UNCHANGED <<results, recentResults, filteredResults>>
                             ELSE Parsed(outcome.doc)
            ELSE IF mentionsRedirect(outcome.message)
                   THEN /\ pc' = "retrying"
                        /\ fetchCount' = fetchCount + 1
                        /\ UNCHANGED <<results, recentResults, filteredResults,
                                       result, similarProducts, pending,
                                       judgment, response>>
                   ELSE Fail(outcome.message)
  /\ UNCHANGED <<body, args>>
  /\ UNCHANGED <<session, requests>>

\* scrapeAucfan of the main search: the GET of the retry ends.
RetryResponse ==
  /\ pc = "retrying"
  /\ \E outcome \in GetOutcomesAt("retrying") :
       /\ fetched' = outcome
       /\ IF outcome.kind = "response"
            THEN /\ AfterScrape(parseAucfanResults(outcome.doc, args.modelNumber))
                 /\ Parsed(outcome.doc)
            ELSE Fail(fetched.message)
  /\ UNCHANGED <<body, args>>
  /\ UNCHANGED <<session, requests>>

\* searchSimilarProducts once the scrape of the keyword at the head of
\* `pending` has ended with report (None when it threw).
AfterSimilar(report) ==
  LET found == IF report # None /\ report.count > 0
                 THEN Append(similarProducts,
                             [query |-> Head(pending), count |-> report.count,
                              avgPrice |-> report.avgPrice])
                 ELSE similarProducts
  IN  IF Tail(pending) = <<>>
        THEN /\ Respond(result, found)
             /\ UNCHANGED fetchCount
        ELSE /\ similarProducts' = found
             /\ pending' = Tail(pending)
             /\ fetchCount' = fetchCount + 1
             /\ pc' = "similar"
             /\ UNCHANGED <<judgment, response>>

\* scrapeAucfan of a similar keyword: the first GET ends.
SimilarResponse ==
  /\ pc = "similar"
  /\ \E outcome \in GetOutcomes :
       /\ fetched' = outcome
       /\ IF outcome.kind = "response"
            THEN IF outcome.status # 200
                   THEN AfterSimilar(None)
                   ELSE AfterSimilar(scrapePage(outcome.doc, Head(pending)))
            ELSE IF mentionsRedirect(outcome.message)
                   THEN /\ pc' = "similarRetrying"
                        /\ fetchCount' = fetchCount + 1
                        /\ UNCHANGED <<similarProducts, pending, judgment, response>>
                   ELSE AfterSimilar(None)
  /\ UNCHANGED <<body, args, results, recentResults, filteredResults, result>>
  /\ UNCHANGED <<session, requests>>

\* scrapeAucfan of a similar keyword: the GET of the retry ends.
SimilarRetryResponse ==
  /\ pc = "similarRetrying"
  /\ \E outcome \in GetOutcomesAt("similarRetrying") :
       /\ fetched' = outcome
       /\ IF outcome.kind = "response"
            THEN AfterSimilar(parseAucfanResults(outcome.doc, Head(pending)))
            ELSE AfterSimilar(None)
  /\ UNCHANGED <<body, args, results, recentResults, filteredResults, result>>
  /\ UNCHANGED <<session, requests>>

Next ==
  \/ ApiSearch
  \/ ScrapeResponse
  \/ RetryResponse
  \/ SimilarResponse
  \/ SimilarRetryResponse

Spec == Init /\ [][Next]_vars

-----------------------------------------------------------------------------
(* Properties of the filter and of the report                              *)

Reported == pc \in {"reported", "reportedLogin"}

\* The lower-cased title holds a term of the first variant's denylist.
DenylistHit(title) ==
  \E k \in 1..Len(adKeywords) : includes(toLowerCase(title), adKeywords[k])

RECURSIVE IsSubsequence(_, _)
\* sub is seq with some elements left out, the order kept.
IsSubsequence(sub, seq) ==
  IF sub = <<>> THEN TRUE
  ELSE IF seq = <<>> THEN FALSE
  ELSE IF Head(sub) = Head(seq) THEN IsSubsequence(Tail(sub), Tail(seq))
  ELSE IsSubsequence(sub, Tail(seq))

Occurrences(x, seq) == Cardinality({i \in 1..Len(seq) : seq[i] = x})

\* Every element of sub occurs in seq at least as often as in sub.
IsSubMultiset(sub, seq) ==
  \A i \in 1..Len(sub) : Occurrences(sub[i], sub) <= Occurrences(sub[i], seq)

\* The listings of the window w whose price lies in
\* [max(floor, Q1 - 1.5 IQR), Q3 + 1.5 IQR], Q1 and Q3 being the elements at
\* the indices floor(n * 0.25) and floor(n * 0.75) of the sorted prices.
WithinQuartileRange(w, floor) ==
  LET n == Len(w)
      sorted == SortAsc(Prices(w))
      Q1 == sorted[(n \div 4) + 1]
      Q3 == sorted[((3 * n) \div 4) + 1]
      IQR == Q3 - Q1
  IN  SelectSeq(w, LAMBDA item :
        /\ 2 * item.price >= 2 * floor
        /\ 2 * item.price >= 2 * Q1 - 3 * IQR
        /\ 2 * item.price <= 2 * Q3 + 3 * IQR)

\* What outlier rejection must leave of the window w under the floor.
OutlierRejection(w, floor) ==
  IF Len(w) >= 5 THEN WithinQuartileRange(w, floor) ELSE w

\* C4: no listing of a report of the first variant has a lower-cased title
\* holding a denylist term or a price under 500, whatever branch of the
\* filter returned; the advertisement 初月無料プレミアム会員登録 at 2200 is
\* never in a report.
C4_NoAdvertisementInReport ==
  pc = "reported" =>
    /\ \A i \in 1..Len(result.results) :
         /\ ~DenylistHit(result.results[i].title)
         /\ result.results[i].price >= 500
    /\ \A i \in 1..Len(result.results) : result.results[i] # ScenarioD

C4_Witness ==
  /\ pc = "reported"
  /\ \E i \in 1..Len(results) : results[i] = ScenarioD
  /\ Len(result.results) < Len(results)
  /\ result.count >= 4

\* C5 as claimed: in both variants, with 5 or more listings in the window
\* the listings kept are exactly those priced within
\* [max(500, Q1 - 1.5 IQR), Q3 + 1.5 IQR], with fewer the window is returned
\* as it is, and the prices 1000, 1200, 1100, 50000, 1050 give count 4 and
\* average 1088.
C5_AsClaimed ==
  (Reported /\ results # <<>>) =>
    /\ filteredResults = OutlierRejection(recentResults, 500)
    /\ results = ScenarioA => (result.count = 4 /\ result.avgPrice = 1088)

\* C5 amended: the floor of the range is 500 in the first variant and 100,
\* the floor of its stage 1, in the login variant.
C5_OutlierRejection ==
  (Reported /\ results # <<>>) =>
    /\ filteredResults =
         OutlierRejection(recentResults, IF pc = "reported" THEN 500 ELSE 100)
    /\ results = ScenarioA => (result.count = 4 /\ result.avgPrice = 1088)

C5_Witness ==
  /\ pc = "reportedLogin"
  /\ Len(recentResults) >= 5
  /\ Len(filteredResults) < Len(recentResults)
  /\ \E i \in 1..Len(filteredResults) : filteredResults[i].price < 500

\* C6 as claimed: in both variants the value returned is the input with
\* some listings left out, the order kept and every listing unchanged, and
\* the input is not modified.
C6_AsClaimed ==
  Reported =>
    /\ IsSubsequence(filteredResults, args.results)
    /\ results = args.results

\* C6 amended: the first variant returns an order-preserving subsequence of
\* its input; the login variant returns listings of its input, each unchanged
\* and no more often than in the input, in the order its sort by date left;
\* neither modifies the input.
C6_FilterOnlyDiscards ==
  /\ pc = "reported" => IsSubsequence(filteredResults, args.results)
  /\ pc = "reportedLogin" => IsSubMultiset(filteredResults, args.results)
  /\ Reported => results = args.results

C6_Witness ==
  /\ pc = "reportedLogin"
  /\ Len(filteredResults) >= 2
  /\ ~IsSubsequence(filteredResults, args.results)

\* C7: in the first variant, when a listing of the input passes ad and floor
\* removal the report has count >= 1; and were no listing of a window of 5 or
\* more inside the quartile range, the first 10 listings of the window would
\* be returned.
C7_NeverEmptiedByOutlierRejection ==
  pc = "reported" =>
    /\ (\E i \in 1..Len(results) :
          ~DenylistHit(results[i].title) /\ results[i].price >= 500)
        => result.count >= 1
    /\ (Len(recentResults) >= 5 /\ WithinQuartileRange(recentResults, 500) = <<>>)
        => filteredResults = SubSeq(recentResults, 1, Min2(10, Len(recentResults)))

C7_Witness ==
  /\ pc = "reported"
  /\ Len(recentResults) >= 5
  /\ Len(filteredResults) < Len(recentResults)
  /\ result.count >= 1

\* C8: in every report count is the number of listings, avgPrice the mean of
\* the prices rounded to the nearest integer, maxPrice and minPrice the
\* largest and the smallest price, and all of them 0 for no listing; the
\* reply of scrapeHandler likewise gives the number of prices and their mean
\* rounded to the nearest integer.
C8_ReportStatistics ==
  /\ Reported =>
       LET prices == Prices(result.results)
           n == Len(prices)
       IN  /\ result.count = n
           /\ n = 0 => (result.avgPrice = 0 /\ result.maxPrice = 0 /\ result.minPrice = 0)
           /\ n > 0 =>
                /\ 2 * Abs(n * result.avgPrice - Sum(prices)) <= n
                /\ \A i \in 1..n : prices[i] <= result.maxPrice /\ prices[i] >= result.minPrice
                /\ \E i \in 1..n : prices[i] = result.maxPrice
                /\ \E i \in 1..n : prices[i] = result.minPrice
  /\ pc = "handled" =>
       LET prices == Prices(results)
           n == Len(prices)
       IN  /\ result.count = n
           /\ n = 0 => result.avg = 0
           /\ n > 0 => 2 * Abs(n * result.avg - Sum(prices)) <= n

-----------------------------------------------------------------------------
(* Properties of the purchase evaluation and of the request pipeline       *)

\* n is an integer nearest to num / den (den > 0).
IsNearest(n, num, den) == 2 * Abs(n * den - num) <= den

\* The tier of a profit rate in percent.
TierOfRate(rate) ==
  IF rate >= 50 THEN "Recommended"
  ELSE IF rate >= 20 THEN "Consider"
  ELSE IF rate >= 0 THEN "Caution"
  ELSE "Reject"

\* A request answered with the result of processQuery.
Answered == pc = "done" /\ response.status = 200

\* C1: every answered request whose report has count 0 or avgPrice 0 carries
\* the tier NoData and, as totalCost of the judgment, the acquisition price
\* as the caller gave it.
C1_NoDataKeepsRawPrice ==
  (Answered /\ (response.body.count = 0 \/ response.body.avgPrice = 0)) =>
    /\ response.body.judgment.decision = "NoData"
    /\ response.body.judgment.totalCost = args.auctionPrice

\* C2: evaluatePurchase gives NoData when avgPrice = 0 or count = 0; else
\* InsufficientData when count < 3; else, for a positive price, the tier of
\* the profit rate round(100 * (avgPrice - cost) / cost) with
\* cost = round(1.155 * price): >= 50 Recommended, 20..49 Consider, 0..19
\* Caution, < 0 Reject; price 10000, average 9000, count 5 give a loss of 22
\* percent and Reject.
C2_TierOrder ==
  pc = "returned" =>
    LET noData == args.avgPrice = 0 \/ args.count = 0
        tooFew == ~noData /\ args.count < 3
    IN  /\ judgment.decision \in Decisions
        /\ noData => judgment.decision = "NoData"
        /\ tooFew => judgment.decision = "InsufficientData"
        /\ (~noData /\ ~tooFew /\ args.auctionPrice > 0) =>
             \E cost \in 1..(2 * args.auctionPrice) :
               /\ IsNearest(cost, 1155 * args.auctionPrice, 1000)
               /\ \E rate \in -100..(100 * args.avgPrice) :
                    /\ IsNearest(rate, 100 * (args.avgPrice - cost), cost)
                    /\ judgment.decision = TierOfRate(rate)
        /\ args = [auctionPrice |-> 10000, avgPrice |-> 9000, count |-> 5] =>
             /\ judgment.decision = "Reject"
             /\ judgment.reason = <<"Loss", 22>>

C2_Witness ==
  /\ pc = "returned"
  /\ args = [auctionPrice |-> 1000, avgPrice |-> 1727, count |-> 3]
  /\ judgment.decision = "Recommended"

\* C3: every answered request with a positive acquisition price and a report
\* of count >= 1 has totalCost = round(price * 1.05 * 1.10), at the top level
\* and in the judgment, profit = avgPrice - totalCost and profitRate =
\* round(100 * profit / totalCost).
C3_CostDetail ==
  (Answered /\ args.auctionPrice > 0 /\ response.body.count >= 1) =>
    /\ IsNearest(response.body.totalCost, 1155 * args.auctionPrice, 1000)
    /\ response.body.judgment.totalCost = response.body.totalCost
    /\ response.body.profit = response.body.avgPrice - response.body.totalCost
    /\ IsNearest(response.body.profitRate, 100 * response.body.profit,
                 response.body.totalCost)

\* The scrape of the main search has just returned its report from the page
\* held in `fetched`.
MainScrapeReturned ==
  /\ result # None
  /\ fetched.kind = "response"
  /\ \/ pc = "similar" /\ pending = similarKeywords(args.modelNumber)
     \/ /\ Answered
        /\ result.count >= 5 \/ similarKeywords(args.modelNumber) = <<>>

\* C9: for every page fetched for the main search that is the no-results
\* page, or yields no listing, or yields only listings the filter removes, the
\* scrape returns the report with count 0, no listing and avgPrice = maxPrice
\* = minPrice = 0.
C9_NoResultsGiveEmptyReport ==
  (MainScrapeReturned
     /\ (\/ fetched.doc.noResultsMarker
         \/ extractListings(fetched.doc) = <<>>
         \/ filterRecentAndValidPrices(extractListings(fetched.doc)) = <<>>)) =>
    /\ result.count = 0 /\ result.results = <<>>
    /\ result.avgPrice = 0 /\ result.maxPrice = 0 /\ result.minPrice = 0

\* C10: a request whose acquisition price is not positive is never answered
\* with a judgment.
C10_NonPositivePriceRejected ==
  (pc = "done" /\ args # None /\ args.auctionPrice <= 0) => response.status # 200

-----------------------------------------------------------------------------
(* Functions on text: extractPrice and decodeResponse applied on their own *)

\* A text is the sequence of its characters.  Characters that are not ASCII:
\* "yen" = 円, "Yen" = ￥, "fw1" = １ (full-width digit, not matched by \d).
PriceChars == {"0", "1", "9", ",", "yen", "fw1"}

MaxText == 4

\* ￥12,345 and 1,000円
PriceScenarios ==
  { <<"Yen", "1", "2", ",", "3", "4", "5">>,
    <<"1", ",", "0", "0", "0", "yen">> }

\* The argument of extractPrice: a string, or undefined (no text found).
PriceTexts ==
  {Undefined} \cup
  {Str(t) : t \in SeqsUpTo(PriceChars, MaxText) \cup PriceScenarios}

\* priceText.replace(/[^\d]/g, '')
stripNonDigits(chars) == SelectSeq(chars, LAMBDA c : c \in Digits)

\* priceText.replace(/[^\d,]/g, '').replace(/,/g, '') of src/api/scrape.js
stripNonDigitsAndCommas(chars) ==
  SelectSeq(SelectSeq(chars, LAMBDA c : c \in Digits \/ c = ","),
            LAMBDA c : c # ",")

\* isNaN(parseInt(numStr)) for a string without sign or blanks
parseIntIsNaN(chars) == chars = <<>> \/ Head(chars) \notin Digits

\* extractPrice keeping what parseInt reads off the text as it is.
extractPriceUnstripped(priceText) ==
  IF isFalsy(priceText) THEN 0
  ELSE IF parseIntIsNaN(priceText.value) THEN 0
  ELSE LeadingDigits(priceText.value, 0)

\* extractPrice of src/server.js
extractPrice(priceText) ==
  IF isFalsy(priceText) THEN 0
  ELSE LET numStr == stripNonDigits(priceText.value)
       IN  IF parseIntIsNaN(numStr) THEN 0 ELSE LeadingDigits(numStr, 0)

\* extractPrice of src/api/scrape.js
extractPriceApi(priceText) ==
  IF isFalsy(priceText) THEN 0
  ELSE LET numStr == stripNonDigitsAndCommas(priceText.value)
       IN  IF parseIntIsNaN(numStr) THEN 0 ELSE LeadingDigits(numStr, 0)

\* A buffer is a sequence of byte groups, each decoded on its own by every
\* decoder: "41" (A), "C3A9" (UTF-8 of an accented e), "82A0" (Shift_JIS of
\* あ), "A4A2" (EUC-JP of あ), "B0FE" (an EUC-JP kanji), "FF" (a byte no
\* encoding accepts).
ByteGroups == {"41", "C3A9", "82A0", "A4A2", "B0FE", "FF"}

MaxGroups == 3

Buffers == SeqsUpTo(ByteGroups, MaxGroups)

\* U+FFFD, the replacement character
Replacement == "FFFD"

\* buffer.toString('utf8') of one group
utf8Group(g) ==
  CASE g = "41" -> <<"A">>
    [] g = "C3A9" -> <<"e-acute">>
    [] g = "FF" -> <<Replacement>>
    [] OTHER -> <<Replacement, Replacement>>

\* iconv.decode(buffer, 'shift_jis') of one group: A1..DF are half-width
\* katakana, 82A0 is あ, FE and FF are no Shift_JIS bytes.
sjisGroup(g) ==
  CASE g = "41" -> <<"A">>
    [] g = "C3A9" -> <<"hw-te", "hw-small-u">>
    [] g = "82A0" -> <<"hiragana-a">>
    [] g = "A4A2" -> <<"hw-comma", "hw-bracket">>
    [] g = "B0FE" -> <<"hw-dash", Replacement>>
    [] g = "FF" -> <<Replacement>>

\* iconv.decode(buffer, 'euc-jp') of one group: pairs of A1..FE are JIS X 0208
\* characters, 82, A0 and FF are no EUC-JP bytes.
eucGroup(g) ==
  CASE g = "41" -> <<"A">>
    [] g = "C3A9" -> <<"kanji-35-9">>
    [] g = "82A0" -> <<Replacement, Replacement>>
    [] g = "A4A2" -> <<"hiragana-a">>
    [] g = "B0FE" -> <<"kanji-16-94">>
    [] g = "FF" -> <<Replacement>>

RECURSIVE decodeWith(_, _)
\* The decoding of a buffer under "utf8", "shift_jis" or "euc-jp".
decodeWith(buffer, encoding) ==
  IF buffer = <<>> THEN <<>>
  ELSE (CASE encoding = "utf8" -> utf8Group(Head(buffer))
          [] encoding = "shift_jis" -> sjisGroup(Head(buffer))
          [] encoding = "euc-jp" -> eucGroup(Head(buffer)))
       \o decodeWith(Tail(buffer), encoding)

\* text.includes('�')
hasReplacement(text) == \E i \in 1..Len(text) : text[i] = Replacement

\* decodeResponse of src/server.js (first variant); iconvLite tells whether
\* require('iconv-lite') succeeds.  The value is [threw, text].
decodeResponse(buffer, iconvLite) ==
  LET utf8Text == decodeWith(buffer, "utf8")
      sjisText == decodeWith(buffer, "shift_jis")
      eucText == decodeWith(buffer, "euc-jp")
  IN  [threw |-> FALSE,
       text |-> IF ~hasReplacement(utf8Text) THEN utf8Text
                ELSE IF ~iconvLite THEN utf8Text
                ELSE IF ~hasReplacement(sjisText) THEN sjisText
                ELSE IF ~hasReplacement(eucText) THEN eucText
                ELSE sjisText]

\* decodeResponse of src/api/scrape.js: iconv-lite is imported with the
\* module, and iconv.decode does not throw on bytes it cannot map.
decodeResponseApi(buffer) ==
  LET utf8Text == decodeWith(buffer, "utf8")
  IN  [threw |-> FALSE,
       text |-> IF ~hasReplacement(utf8Text) THEN utf8Text
                ELSE decodeWith(buffer, "shift_jis")]

\* decodeResponse of the login variant of src/server.js
decodeResponseLogin(buffer, iconvLite) ==
  LET utf8Text == decodeWith(buffer, "utf8")
  IN  [threw |-> FALSE,
       text |-> IF ~hasReplacement(utf8Text) THEN utf8Text
                ELSE IF ~iconvLite THEN utf8Text
                ELSE decodeWith(buffer, "shift_jis")]

InitText ==
  /\ pc = "called"
  /\ args \in [priceText : PriceTexts]
             \cup [buffer : Buffers, iconvLite : BOOLEAN]
  /\ result = None
  /\ body = None /\ fetched = None /\ fetchCount = 0
  /\ results = <<>> /\ recentResults = None /\ filteredResults = None
  /\ similarProducts = <<>> /\ pending = <<>> /\ judgment = None
  /\ response = None
  /\ session = None /\ requests = None

ExtractPrice ==
  /\ pc = "called"
  /\ "priceText" \in DOMAIN args
  /\ result' = extractPrice(args.priceText)
  /\ pc' = "extractPrice"
  /\ UNCHANGED <<body, fetched, fetchCount, results, recentResults,
                 filteredResults, similarProducts, pending, judgment, args,
                 response>>
  /\ UNCHANGED <<session, requests>>

ExtractPriceApi ==
  /\ pc = "called"
  /\ "priceText" \in DOMAIN args
  /\ result' = extractPriceApi(args.priceText)
  /\ pc' = "extractPriceApi"
  /\ UNCHANGED <<body, fetched, fetchCount, results, recentResults,
                 filteredResults, similarProducts, pending, judgment, args,
                 response>>
  /\ UNCHANGED <<session, requests>>

DecodeResponse ==
  /\ pc = "called"
  /\ "buffer" \in DOMAIN args
  /\ result' = decodeResponse(args.buffer, args.iconvLite)
  /\ pc' = "decodeResponse"
  /\ UNCHANGED <<body, fetched, fetchCount, results, recentResults,
                 filteredResults, similarProducts, pending, judgment, args,
                 response>>
  /\ UNCHANGED <<session, requests>>

DecodeResponseApi ==
  /\ pc = "called"
  /\ "buffer" \in DOMAIN args
  /\ args.iconvLite
  /\ result' = decodeResponseApi(args.buffer)
  /\ pc' = "decodeResponseApi"
  /\ UNCHANGED <<body, fetched, fetchCount, results, recentResults,
                 filteredResults, similarProducts, pending, judgment, args,
                 response>>
  /\ UNCHANGED <<session, requests>>

DecodeResponseLogin ==
  /\ pc = "called"
  /\ "buffer" \in DOMAIN args
  /\ result' = decodeResponseLogin(args.buffer, args.iconvLite)
  /\ pc' = "decodeResponseLogin"
  /\ UNCHANGED <<body, fetched, fetchCount, results, recentResults,
                 filteredResults, similarProducts, pending, judgment, args,
                 response>>
  /\ UNCHANGED <<session, requests>>

NextText ==
  \/ ExtractPrice
  \/ ExtractPriceApi
  \/ DecodeResponse
  \/ DecodeResponseApi
  \/ DecodeResponseLogin

SpecText == InitText /\ [][NextText]_vars

RECURSIVE Pow10(_)
Pow10(n) == IF n = 0 THEN 1 ELSE 10 * Pow10(n - 1)

RECURSIVE SumOver(_, _)
\* The sum of f[i] over the set of indices I.
SumOver(f, I) ==
  IF I = {} THEN 0
  ELSE LET i == CHOOSE x \in I : TRUE IN f[i] + SumOver(f, I \ {i})

\* The base-10 value of the ASCII digits of chars read in order: each digit
\* weighs 10 to the number of digits after it.  0 when there is no digit.
DigitsValue(chars) ==
  LET D == {i \in 1..Len(chars) : chars[i] \in Digits}
      weight == [i \in D |->
                   DigitValue(chars[i])
                     * Pow10(Cardinality({j \in D : j > i}))]
  IN  SumOver(weight, D)

\* C11: extractPrice of a string is a non-negative integer, the base-10 value
\* of its digits read in order with every other character removed, and 0 for
\* an empty or missing string or one without a digit; ￥12,345 gives 12345.
\* Both variants of the function.
C11_ExtractPrice ==
  pc \in {"extractPrice", "extractPriceApi"} =>
    /\ result \in Nat
    /\ args.priceText = Undefined => result = 0
    /\ args.priceText # Undefined => result = DigitsValue(args.priceText.value)
    /\ args.priceText = Str(<<"Yen", "1", "2", ",", "3", "4", "5">>)
         => result = 12345

C11_Witness ==
  /\ pc = "extractPrice"
  /\ args.priceText = Str(<<"Yen", "1", "2", ",", "3", "4", "5">>)
  /\ result = 12345

\* A call of decodeResponse (any variant) has returned.
Decoded == pc \in {"decodeResponse", "decodeResponseApi", "decodeResponseLogin"}

\* The decoding of the buffer under each candidate, in the order of the list.
Candidates == <<"utf8", "shift_jis", "euc-jp">>

\* C12: decodeResponse (first variant and src/api/scrape.js) never raises,
\* and when the UTF-8, the Shift_JIS and the EUC-JP decoding of the buffer all
\* hold the replacement character it returns the UTF-8 decoding.
C12_AllFailGivesUtf8 ==
  pc \in {"decodeResponse", "decodeResponseApi"} =>
    /\ ~result.threw
    /\ (\A i \in 1..3 : hasReplacement(decodeWith(args.buffer, Candidates[i])))
         => result.text = decodeWith(args.buffer, "utf8")

\* C13: decodeResponse (first and login variant) returns the decoding under
\* the first of UTF-8, Shift_JIS, EUC-JP that holds no replacement character:
\* never a decoding with a replacement character while a later candidate is
\* clean, and the UTF-8 decoding itself when that is clean.
C13_FirstCleanCandidate ==
  (pc \in {"decodeResponse", "decodeResponseLogin"} /\ args.iconvLite) =>
    \A i \in 1..3 :
      (/\ ~hasReplacement(decodeWith(args.buffer, Candidates[i]))
       /\ \A j \in 1..(i - 1) : hasReplacement(decodeWith(args.buffer, Candidates[j])))
      => result.text = decodeWith(args.buffer, Candidates[i])

-----------------------------------------------------------------------------
(* The login variant under concurrent searches: scrapeAucfanWithLogin and  *)
(* loginToAucfan on the module-level session state.  A step runs from one  *)
(* await to the next, as the event loop interleaves the handlers.          *)

MAX_LOGIN_ATTEMPTS == 3

LOGIN_COOLDOWN == 300000

\* The searches the server handles at the same time, and how many one slot
\* serves one after the other.
Slots == {1, 2}

MaxServed == 2

\* Date.now() advances by one cooldown at a time, up to MaxNow.
MaxNow == 300000

\* The writer of the initial session state: no request.
NoRequest == <<0, 0>>

\* The answers to the GET of the search page: the results page, the page
\* asking to log in (holds ログイン and 会員登録), a status other than 200,
\* a failure of the request.
SearchOutcomes ==
  { [kind |-> "page", status |-> 200, page |-> "results"],
    [kind |-> "page", status |-> 200, page |-> "loginWall"],
    [kind |-> "page", status |-> 304, page |-> "results"],
    [kind |-> "error", message |-> "timeout"] }

isLoginWall(page) == page = "loginWall"

\* parseAucfanResults(html, query): a value of the page and the query alone.
reportOf(page, query) == [kind |-> "report", query |-> query, page |-> page]

\* The request of a slot marked as having read the session state, which
\* another request may have written last.
Read(req) ==
  [req EXCEPT !.readFrom =
     @ \cup (IF session.writer \in {req.id, NoRequest} THEN {}
             ELSE {session.writer})]

Finished(req, outcome) == [req EXCEPT !.pc = "done", !.outcome = outcome]

\* loginToAucfan up to its first await: the attempt limit, then the GET of
\* the login page.  sess is the session state the call finds.
beginLogin(req, sess) ==
  LET call == [req EXCEPT !.logins = @ + 1]
  IN  IF sess.loginAttempts >= MAX_LOGIN_ATTEMPTS
           /\ (sess.now - sess.lastLoginAttempt) < LOGIN_COOLDOWN
        THEN Finished(call, [kind |-> "error", message |-> "LoginLimit"])
        ELSE [call EXCEPT !.pc = "loginPage", !.now = sess.now]

\* The GET of the search page is sent for the request: pc is "search" or
\* "retrySearch".
sendSearch(req, at) == [req EXCEPT !.pc = at, !.fetches = @ + 1]

\* The catch branch of loginToAucfan.
failedLoginSession(req) ==
  [session EXCEPT !.loginAttempts = @ + 1, !.lastLoginAttempt = req.now,
                  !.isLoggedIn = FALSE, !.writer = req.id]

InitLogin ==
  /\ pc = "serving"
  /\ session = [isLoggedIn |-> FALSE, loginAttempts |-> 0,
                lastLoginAttempt |-> 0, now |-> 0, writer |-> NoRequest]
  /\ requests = [r \in Slots |->
                   [pc |-> "idle", id |-> <<r, 0>>, served |-> 0,
                    query |-> "iPhone 13 Pro", phase |-> "first", now |-> 0,
                    history |-> <<>>, readFrom |-> {}, outcome |-> None,
                    logins |-> 0, fetches |-> 0]]
  /\ body = None /\ fetched = None /\ fetchCount = 0 /\ result = None
  /\ results = <<>> /\ recentResults = None /\ filteredResults = None
  /\ similarProducts = <<>> /\ pending = <<>> /\ judgment = None
  /\ args = None /\ response = None

Others == <<pc, body, fetched, fetchCount, results, recentResults,
            filteredResults, result, similarProducts, pending, judgment, args,
            response>>

\* A search arrives: scrapeAucfanWithLogin up to its first await.
StartSearch(r) ==
  /\ requests[r].pc \in {"idle", "done"}
  /\ requests[r].served < MaxServed
  /\ LET fresh == [requests[r] EXCEPT
                     !.id = <<r, requests[r].served + 1>>,
                     !.served = @ + 1, !.phase = "first", !.history = <<>>,
                     !.readFrom = {}, !.outcome = None,
                     !.logins = 0, !.fetches = 0]
         req == Read(fresh)
     IN  requests' = [requests EXCEPT ![r] =
                        IF ~session.isLoggedIn THEN beginLogin(req, session)
                        ELSE sendSearch(req, "search")]
  /\ UNCHANGED <<session, Others>>

\* The GET of the login page ends.
LoginPageResponse(r) ==
  /\ requests[r].pc = "loginPage"
  /\ \E ok \in BOOLEAN :
       IF ok
         THEN /\ requests' = [requests EXCEPT ![r].pc = "loginPost"]
              /\ UNCHANGED session
         ELSE /\ session' = failedLoginSession(requests[r])
              /\ requests' = [requests EXCEPT ![r] =
                   Finished(Read(requests[r]),
                            [kind |-> "error", message |-> "LoginFailed"])]
  /\ UNCHANGED Others

\* The POST of the credentials ends: accepted or not.
LoginPostResponse(r) ==
  /\ requests[r].pc = "loginPost"
  /\ \E accepted \in BOOLEAN :
       IF accepted
         THEN /\ session' = [session EXCEPT !.isLoggedIn = TRUE,
                                            !.loginAttempts = 0,
                                            !.writer = requests[r].id]
              /\ requests' = [requests EXCEPT ![r] =
                   sendSearch(@, IF requests[r].phase = "first" THEN "search"
                                 ELSE "retrySearch")]
         ELSE /\ session' = failedLoginSession(requests[r])
              /\ requests' = [requests EXCEPT ![r] =
                   Finished(Read(requests[r]),
                            [kind |-> "error", message |-> "LoginFailed"])]
  /\ UNCHANGED Others

\* The GET of the search page ends.
SearchResponse(r) ==
  /\ requests[r].pc = "search"
  /\ \E outcome \in SearchOutcomes :
       LET req == [requests[r] EXCEPT !.history = Append(@, outcome)]
       IN  IF outcome.kind = "error" \/ outcome.status # 200
             THEN /\ requests' = [requests EXCEPT ![r] =
                        Finished(req, [kind |-> "error", message |-> "ScrapeFailed"])]
                  /\ UNCHANGED session
           ELSE IF isLoginWall(outcome.page)
             THEN LET loggedOut == [session EXCEPT !.isLoggedIn = FALSE,
                                                   !.writer = req.id]
                  IN  /\ session' = loggedOut
                      /\ requests' = [requests EXCEPT ![r] =
                           beginLogin([Read(req) EXCEPT !.phase = "again"],
                                      loggedOut)]
           ELSE /\ requests' = [requests EXCEPT ![r] =
                      Finished(req, reportOf(outcome.page, req.query))]
                /\ UNCHANGED session
  /\ UNCHANGED Others

\* RetrySearchResponse testing the page for the login wall again and
\* logging in once more.
RetrySearchResponseLooping(r) ==
  /\ requests[r].pc = "retrySearch"
  /\ \E outcome \in SearchOutcomes :
       LET req == [requests[r] EXCEPT !.history = Append(@, outcome)]
       IN  IF outcome.kind = "error"
             THEN /\ requests' = [requests EXCEPT ![r] =
                        Finished(req, [kind |-> "error", message |-> "ScrapeFailed"])]
                  /\ UNCHANGED session
           ELSE IF isLoginWall(outcome.page)
             THEN /\ requests' = [requests EXCEPT ![r] = beginLogin(req, session)]
                  /\ UNCHANGED session
           ELSE /\ requests' = [requests EXCEPT ![r] =
                      Finished(req, reportOf(outcome.page, req.query))]
                /\ UNCHANGED session
  /\ UNCHANGED Others

\* The GET of the search page after the second login ends.
RetrySearchResponse(r) ==
  /\ requests[r].pc = "retrySearch"
  /\ \E outcome \in SearchOutcomes :
       LET req == [requests[r] EXCEPT !.history = Append(@, outcome)]
       IN  requests' = [requests EXCEPT ![r] =
             IF outcome.kind = "error"
               THEN Finished(req, [kind |-> "error", message |-> "ScrapeFailed"])
               ELSE Finished(req, reportOf(outcome.page, req.query))]
  /\ UNCHANGED <<session, Others>>

\* Time passes.
Tick ==
  /\ session.now < MaxNow
  /\ session' = [session EXCEPT !.now = @ + LOGIN_COOLDOWN]
  /\ UNCHANGED <<requests, Others>>

NextLogin ==
  \/ \E r \in Slots : StartSearch(r)
  \/ \E r \in Slots : LoginPageResponse(r)
  \/ \E r \in Slots : LoginPostResponse(r)
  \/ \E r \in Slots : SearchResponse(r)
  \/ \E r \in Slots : RetrySearchResponse(r)
  \/ Tick

SpecLogin == InitLogin /\ [][NextLogin]_vars

\* loginToAucfan is in flight for the request of slot r: its login page has
\* been requested and isLoggedIn not yet updated.
LoginInFlight(r) == requests[r].pc \in {"loginPage", "loginPost"}

\* C14: at any moment at most one call of loginToAucfan is in flight.
C14_LoginSerialized ==
  Cardinality({r \in Slots : LoginInFlight(r)}) <= 1

\* C15: requests are independent: no request reads session state that
\* another request wrote, and two requests for the same query that got the
\* same answers to their searches have the same outcome.
C15_RequestsIndependent ==
  /\ \A r \in Slots : requests[r].readFrom = {}
  /\ \A r1, r2 \in Slots :
       (/\ requests[r1].pc = "done" /\ requests[r2].pc = "done"
        /\ requests[r1].query = requests[r2].query
        /\ requests[r1].history = requests[r2].history)
       => requests[r1].outcome = requests[r2].outcome

-----------------------------------------------------------------------------
(* Extraction on its own, in the three variants: parseAucfanResults of     *)
(* src/server.js, its login variant, and scrapeAucfan of src/api/scrape.js *)

\* An element with what the other variants read as well: the text of its
\* price element, the text of its first link, and its whole text.
Node(el, priceText, linkText, text) ==
  [mercari |-> el.mercari, shops |-> el.shops, yahoo |-> el.yahoo,
   shopping |-> el.shopping, title |-> el.title,
   priceMatches |-> el.priceMatches, date |-> el.date,
   priceText |-> priceText, linkText |-> linkText, text |-> text]

\* The title the login variant's selector pass ends with.
loginTitle(node) == IF node.title # <<>> THEN node.title ELSE node.linkText

isExtractedLogin(node) ==
  /\ loginTitle(node) # <<>> /\ TitleLength(loginTitle(node)) > 2
  /\ extractPrice(Str(node.priceText)) > 0

extractedListingLogin(node) ==
  [title |-> substring(loginTitle(node), 100),
   price |-> extractPrice(Str(node.priceText)), date |-> node.date,
   url |-> "https://aucfan.com/item", imageURL |-> ""]

selectorPassLogin(nodes) ==
  LET picked == SelectSeq(nodes, isExtractedLogin)
  IN  slice([i \in 1..Len(picked) |-> extractedListingLogin(picked[i])], 0, 100)

RECURSIVE selectorLoopLogin(_)
selectorLoopLogin(selectors) ==
  IF selectors = <<>> THEN <<>>
  ELSE LET pushed == selectorPassLogin(Head(selectors))
       IN  IF Len(pushed) > 0 THEN pushed
           ELSE selectorLoopLogin(Tail(selectors))

\* ['初月無料', '月額', 'プレミアム', '2200円', '998円']
adKeywordsFallback ==
  << <<"shogetsu", "muryou">>, <<"getsugaku">>, <<"puremiamu">>,
     <<"2200", "yen">>, <<"998", "yen">> >>

\* nearbyLink.text().trim() || text.substring(0, 50)
fallbackTitleLogin(node) ==
  IF node.linkText # <<>> THEN node.linkText ELSE substring(node.text, 50)

isExtractedByFallbackLogin(node) ==
  /\ node.priceMatches # <<>> /\ TitleLength(node.text) < 500
  /\ Head(node.priceMatches) > 1000 /\ Head(node.priceMatches) < 10000000
  /\ TitleLength(fallbackTitleLogin(node)) > 3
  /\ ~\E k \in 1..Len(adKeywordsFallback) :
        includes(fallbackTitleLogin(node), adKeywordsFallback[k])

fallbackListingLogin(node) ==
  [title |-> fallbackTitleLogin(node), price |-> Head(node.priceMatches),
   date |-> "", url |-> "", imageURL |-> ""]

fallbackPassLogin(nodes) ==
  LET loose == SelectSeq(nodes, isExtractedByFallbackLogin)
  IN  slice([i \in 1..Len(loose) |-> fallbackListingLogin(loose[i])], 0, 50)

\* `results` of the login variant's parseAucfanResults before the filter.
extractPageLogin(page) ==
  LET structured == selectorLoopLogin(page.selectors)
  IN  IF Len(structured) = 0
        THEN fallbackPassLogin(Flatten(page.selectors) \o page.loose)
        ELSE structured

\* src/api/scrape.js: the pass over '.product-item, .item, ...'
isExtractedApi(node) ==
  loginTitle(node) # <<>> /\ extractPriceApi(Str(node.priceText)) > 0

extractedListingApi(node) ==
  [title |-> loginTitle(node), price |-> extractPriceApi(Str(node.priceText)),
   date |-> node.date, url |-> "https://aucfan.com/item", imageURL |-> ""]

\* src/api/scrape.js: the pass over 'tr, .row, .list-item'
isExtractedApiRow(node) ==
  node.linkText # <<>> /\ extractPriceApi(Str(node.priceText)) > 0

extractedListingApiRow(node) ==
  [title |-> node.linkText, price |-> extractPriceApi(Str(node.priceText)),
   date |-> "", url |-> "", imageURL |-> ""]

\* `results` of scrapeAucfan of src/api/scrape.js: page.selectors[1] are the
\* elements of its first selector, page.selectors[2] those of its second.
extractPageApi(page) ==
  LET first == IF Len(page.selectors) >= 1
                 THEN SelectSeq(page.selectors[1], isExtractedApi) ELSE <<>>
      second == IF Len(page.selectors) >= 2
                  THEN SelectSeq(page.selectors[2], isExtractedApiRow) ELSE <<>>
  IN  IF Len(first) > 0
        THEN [i \in 1..Len(first) |-> extractedListingApi(first[i])]
        ELSE [i \in 1..Len(second) |-> extractedListingApiRow(second[i])]

\* The object scrapeAucfan of src/api/scrape.js returns.
marketReportApi(query, listings) ==
  LET prices == Prices(listings)
      nonEmpty == Len(listings) > 0
  IN  [query |-> query, results |-> listings, count |-> Len(listings),
       avgPrice |-> IF nonEmpty THEN MathRound(Sum(prices), Len(prices)) ELSE 0,
       maxPrice |-> IF nonEmpty THEN MaxOf(prices) ELSE 0,
       minPrice |-> IF nonEmpty THEN MinOf(prices) ELSE 0]

\* Nodes of the pages: a listing of 1000 and one of 1200; a title of 2
\* characters; a price of 0; a title of 120 characters; a node naming
\* メルカリShops and ヤフオク; a node naming ショッピング; a node whose price
\* is in its text only and whose link text has 120 characters.
Run(c, n) == [i \in 1..n |-> c]

ItemNode(price, priceText, platform) ==
  Node(ItemElement(price, platform), priceText, TitleItem, TitleItem \o priceText)

NodeItem == ItemNode(1000, <<"1", ",", "0", "0", "0", "yen">>, "mercari")

NodeItem2 == ItemNode(1200, <<"1", ",", "2", "0", "0", "yen">>, "yahoo")

NodeShortTitle ==
  Node(Element(FALSE, FALSE, TRUE, FALSE, <<"A", "B">>, <<1200>>, ""),
       <<"1", "2", "0", "0", "yen">>, <<"A", "B">>, <<"A", "B">>)

NodeZeroPrice ==
  Node(Element(TRUE, FALSE, FALSE, FALSE, TitleItem, <<0>>, ""),
       <<"0", "yen">>, TitleItem, TitleItem)

NodeLongTitle ==
  Node(Element(TRUE, FALSE, FALSE, FALSE, Run("x", 120), <<1500>>, ""),
       <<"1", "5", "0", "0", "yen">>, Run("x", 120), Run("x", 120))

NodeShopsAndYahoo ==
  Node(Element(TRUE, TRUE, TRUE, FALSE, <<"S", "h", "o", "p", "s", "1">>,
               <<3000>>, ""),
       <<"3", "0", "0", "0", "yen">>, <<>>, <<"S", "h", "o", "p", "s", "1">>)

NodeShopping ==
  Node(Element(FALSE, FALSE, TRUE, TRUE, <<"S", "h", "o", "p", "p", "i", "n", "g">>,
               <<3000>>, ""),
       <<"3", "0", "0", "0", "yen">>, <<>>,
       <<"S", "h", "o", "p", "p", "i", "n", "g">>)

NodeTextOnly ==
  Node(Element(TRUE, FALSE, FALSE, FALSE, <<>>, <<1500>>, ""),
       <<>>, Run("y", 120), Run("y", 120))

\* The element lists a selector can match.
NodeLists ==
  { <<NodeItem, NodeItem2>>,
    <<NodeShortTitle, NodeZeroPrice>>,
    <<NodeLongTitle>>,
    <<NodeShopsAndYahoo, NodeShopping>>,
    <<NodeTextOnly>>,
    Run(NodeItem, 101) }

\* The elements naming a platform that no selector matches.
LooseLists ==
  { <<>>, <<NodeItem2>>, <<NodeTextOnly, NodeShopsAndYahoo>>, Run(NodeItem, 51) }

MaxSelectors == 2

Pages ==
  [selectors : SeqsUpTo(NodeLists, MaxSelectors), loose : LooseLists]

InitExtract ==
  /\ pc = "fetchedPage"
  /\ fetched \in Pages
  /\ args = [query |-> "iPhone 13 Pro"]
  /\ results = <<>> /\ result = None
  /\ recentResults = None /\ filteredResults = None
  /\ body = None /\ fetchCount = 0
  /\ similarProducts = <<>> /\ pending = <<>> /\ judgment = None
  /\ response = None
  /\ session = None /\ requests = None

ExtractFrame ==
  UNCHANGED <<body, fetched, fetchCount, recentResults, similarProducts,
              pending, judgment, args, response, session, requests>>

\* parseAucfanResults of src/server.js (first variant)
ParsePage ==
  /\ pc = "fetchedPage"
  /\ LET extracted == extractPage(fetched)
         final == filterRecentAndValidPrices(extracted)
     IN  /\ results' = extracted
         /\ filteredResults' = final
         /\ result' = marketReport(args.query, final, Len(extracted), FALSE)
  /\ pc' = "parsed"
  /\ ExtractFrame

\* parseAucfanResults of the login variant
ParsePageLogin ==
  /\ pc = "fetchedPage"
  /\ LET extracted == extractPageLogin(fetched)
     IN  /\ results' = extracted
         /\ \E sorted \in sortByDate(adFilterLogin(extracted)) :
              LET final == filterRecentAndValidPricesLogin(extracted, sorted)
              IN  /\ filteredResults' = final
                  /\ result' = marketReport(args.query, final,
                                            Len(extracted), TRUE)
  /\ pc' = "parsedLogin"
  /\ ExtractFrame

\* scrapeAucfan of src/api/scrape.js from the parse of the page on
ScrapeApi ==
  /\ pc = "fetchedPage"
  /\ LET extracted == extractPageApi(fetched)
     IN  /\ results' = extracted
         /\ filteredResults' = extracted
         /\ result' = marketReportApi(args.query, extracted)
  /\ pc' = "scrapedApi"
  /\ ExtractFrame

NextExtract == ParsePage \/ ParsePageLogin \/ ScrapeApi

SpecExtract == InitExtract /\ [][NextExtract]_vars

-----------------------------------------------------------------------------
(* Properties of the extraction                                            *)

PageParsed == pc \in {"parsed", "parsedLogin", "scrapedApi"}

\* What each strategy of the variant that parsed the page yields on its own,
\* in the order the code tries them: the selectors, then the fallback.
StrategyYields ==
  LET sel == fetched.selectors
      everything == Flatten(sel) \o fetched.loose
  IN  CASE pc = "parsed" ->
             [k \in 1..Len(sel) |-> selectorPass(sel[k])]
               \o <<fallbackPass(everything)>>
        [] pc = "parsedLogin" ->
             [k \in 1..Len(sel) |-> selectorPassLogin(sel[k])]
               \o <<fallbackPassLogin(everything)>>
        [] pc = "scrapedApi" ->
             <<extractPageApi([selectors |-> slice(sel, 0, 1)])>>
               \o <<extractPageApi([selectors |-> <<<<>>>> \o slice(sel, 1, 2)])>>
        [] OTHER -> <<>>

\* C16: the strategies are tried in a fixed order and the raw listings are
\* exactly what the first strategy yielding at least one listing yields; a
\* later strategy, and the fallback last of all, contributes only when every
\* strategy before it yielded nothing, so all listings come from one strategy.
C16_FirstProductiveStrategyWins ==
  PageParsed =>
    LET yields == StrategyYields
        productive == {k \in 1..Len(yields) : Len(yields[k]) > 0}
    IN  IF productive = {} THEN results = <<>>
        ELSE results = yields[CHOOSE k \in productive :
                                \A j \in productive : k <= j]

\* A page whose first selector yields nothing and whose second yields the
\* listings, though the fallback would yield some as well.
C16_Witness ==
  /\ pc = "parsed"
  /\ Len(fetched.selectors) = 2
  /\ selectorPass(fetched.selectors[1]) = <<>>
  /\ Len(selectorPass(fetched.selectors[2])) > 0
  /\ Len(fallbackPass(fetched.loose)) > 0
  /\ results = selectorPass(fetched.selectors[2])


\* C17: every listing of the raw listing sequence, whichever pass of whichever
\* variant emitted it, has a title of at least 3 characters and a positive
\* (integer) price.
C17_TitleAndPriceFloor ==
  PageParsed =>
    \A i \in 1..Len(results) :
      /\ TitleLength(results[i].title) >= 3
      /\ results[i].price \in Nat \ {0}

\* C18: the raw listing sequence never holds more than 100 listings, and the
\* originalCount of a report is at most 100.
C18_AtMostHundredListings ==
  PageParsed =>
    /\ Len(results) <= 100
    /\ "originalCount" \in DOMAIN result => result.originalCount <= 100

\* C19: every listing in a report of parseAucfanResults (either variant,
\* structured pass or fallback) has a non-empty title of at most 100
\* characters.
C19_ReportedTitleClipped ==
  pc \in {"parsed", "parsedLogin"} =>
    \A i \in 1..Len(result.results) :
      /\ TitleLength(result.results[i].title) >= 1
      /\ TitleLength(result.results[i].title) <= 100

\* The nodes of the page that carry neither the Mercari Shops marker nor the
\* shopping marker.
UnmarkedNodes ==
  LET all == Flatten(fetched.selectors) \o fetched.loose
  IN  {all[i] : i \in {j \in 1..Len(all) : ~all[j].shops /\ ~all[j].shopping}}

\* C20: every listing the platform-scoped extraction emits, in the structured
\* pass as in the fallback pass, is the listing of a node that carries neither
\* the Mercari Shops marker nor the shopping marker.
C20_NoListingFromExcludedNode ==
  pc = "parsed" =>
    \A i \in 1..Len(results) :
      \E node \in UnmarkedNodes :
        \/ isExtracted(node) /\ results[i] = extractedListing(node)
        \/ isExtractedByFallback(node) /\ results[i] = fallbackListing(node)

-----------------------------------------------------------------------------
(* Properties of the report counts, of termination and of the retries      *)

\* C21: in every report count <= 20 and count <= originalCount, and in the
\* first variant the listings of the report are among the first 20 listings
\* that survive the removal of advertisements.
C21_CountBounds ==
  /\ Reported => result.count <= 20 /\ result.count <= result.originalCount
  /\ pc = "reported" =>
       IsSubsequence(filteredResults, slice(adFilter(results), 0, 20))

\* More than 20 listings survive the removal of advertisements and the report
\* holds 20.
C21_Witness ==
  /\ pc = "reported"
  /\ Len(adFilter(results)) > 20
  /\ result.count = 20
  /\ result.originalCount > 20

-----------------------------------------------------------------------------
(* parseAucfanResults of the first variant step by step: one step per      *)
(* selector tried and per element visited, then the filter and the report  *)

ScanLists ==
  { <<NodeShortTitle, NodeZeroPrice>>, <<NodeItem, NodeItem2>>, Run(NodeItem, 101) }

ScanPages ==
  [selectors : SeqsUpTo(ScanLists, MaxSelectors),
   loose : {<<>>, <<NodeItem2>>, Run(NodeItem, 51)}]

\* $('*:contains("メルカリ"), *:contains("ヤフオク"), *:contains("Yahoo")')
fallbackCandidates(page) ==
  SelectSeq(Flatten(page.selectors) \o page.loose,
            LAMBDA el : el.mercari \/ el.yahoo)

InitScan ==
  /\ pc = "selector"
  /\ fetched \in ScanPages
  /\ args = [query |-> "iPhone 13 Pro"]
  /\ results = <<>> /\ result = None
  /\ pending = [selector |-> 1, node |-> 1, tried |-> <<>>, visited |-> {},
                revisits |-> 0, fallbackRuns |-> 0, filterRuns |-> 0,
                reportRuns |-> 0]
  /\ recentResults = None /\ filteredResults = None
  /\ body = None /\ fetchCount = 0
  /\ similarProducts = <<>> /\ judgment = None
  /\ response = None
  /\ session = None /\ requests = None

ScanFrame ==
  UNCHANGED <<body, fetched, fetchCount, recentResults, similarProducts,
              judgment, args, response, session, requests>>

\* The visit of the pair <<k, i>> recorded in the scan position.
visit(k, i) ==
  [pending EXCEPT !.node = i + 1,
                  !.visited = @ \cup {<<k, i>>},
                  !.revisits = IF <<k, i>> \in pending.visited THEN @ + 1 ELSE @]

\* for (const selector of selectors): const elements = $(selector)
TrySelector ==
  /\ pc = "selector"
  /\ pending.selector <= Len(fetched.selectors)
  /\ pending' = [pending EXCEPT !.tried = Append(@, pending.selector), !.node = 1]
  /\ pc' = "each"
  /\ UNCHANGED <<results, filteredResults, result>>
  /\ ScanFrame

\* one callback of elements.each
VisitElement ==
  /\ pc = "each"
  /\ pending.node <= Len(fetched.selectors[pending.selector])
  /\ Len(results) < 100
  /\ LET el == fetched.selectors[pending.selector][pending.node]
     IN  results' = IF isExtracted(el) THEN Append(results, extractedListing(el))
                    ELSE results
  /\ pending' = visit(pending.selector, pending.node)
  /\ UNCHANGED <<pc, filteredResults, result>>
  /\ ScanFrame

\* EachDone going on to the next selector whatever was collected.
EachDoneWithoutBreak ==
  /\ pc = "each"
  /\ \/ pending.node > Len(fetched.selectors[pending.selector])
     \/ Len(results) >= 100
  /\ pc' = "selector"
  /\ pending' = [pending EXCEPT !.selector = @ + 1]
  /\ UNCHANGED <<results, filteredResults, result>>
  /\ ScanFrame

\* elements.each ends (no element left, or `return false` at 100 listings);
\* if (results.length > 0) break
EachDone ==
  /\ pc = "each"
  /\ \/ pending.node > Len(fetched.selectors[pending.selector])
     \/ Len(results) >= 100
  /\ IF Len(results) > 0
       THEN pc' = "filter" /\ UNCHANGED pending
       ELSE /\ pc' = "selector"
            /\ pending' = [pending EXCEPT !.selector = @ + 1]
  /\ UNCHANGED <<results, filteredResults, result>>
  /\ ScanFrame

\* the selector list is exhausted: if (results.length === 0) the fallback
LoopDone ==
  /\ pc = "selector"
  /\ pending.selector > Len(fetched.selectors)
  /\ IF Len(results) = 0
       THEN /\ pc' = "fallback"
            /\ pending' = [pending EXCEPT !.node = 1, !.fallbackRuns = @ + 1]
       ELSE pc' = "filter" /\ UNCHANGED pending
  /\ UNCHANGED <<results, filteredResults, result>>
  /\ ScanFrame

\* one callback of the fallback's each
FallbackVisit ==
  /\ pc = "fallback"
  /\ pending.node <= Len(fallbackCandidates(fetched))
  /\ Len(results) < 50
  /\ LET el == fallbackCandidates(fetched)[pending.node]
     IN  results' = IF isExtractedByFallback(el)
                      THEN Append(results, fallbackListing(el))
                      ELSE results
  /\ pending' = visit(0, pending.node)
  /\ UNCHANGED <<pc, filteredResults, result>>
  /\ ScanFrame

FallbackDone ==
  /\ pc = "fallback"
  /\ \/ pending.node > Len(fallbackCandidates(fetched))
     \/ Len(results) >= 50
  /\ pc' = "filter"
  /\ UNCHANGED <<pending, results, filteredResults, result>>
  /\ ScanFrame

\* const filteredResults = filterRecentAndValidPrices(results)
FilterStep ==
  /\ pc = "filter"
  /\ filteredResults' = filterRecentAndValidPrices(results)
  /\ pending' = [pending EXCEPT !.filterRuns = @ + 1]
  /\ pc' = "aggregate"
  /\ UNCHANGED <<results, result>>
  /\ ScanFrame

\* the statistics and the returned object
AggregateStep ==
  /\ pc = "aggregate"
  /\ result' = marketReport(args.query, filteredResults, Len(results), FALSE)
  /\ pending' = [pending EXCEPT !.reportRuns = @ + 1]
  /\ pc' = "scanned"
  /\ UNCHANGED <<results, filteredResults>>
  /\ ScanFrame

NextScan ==
  \/ TrySelector \/ VisitElement \/ EachDone \/ LoopDone
  \/ FallbackVisit \/ FallbackDone \/ FilterStep \/ AggregateStep

\* The function runs synchronously to its return.
SpecScan == InitScan /\ [][NextScan]_vars /\ WF_vars(NextScan)

\* No selector occurs twice in the sequence of the selectors tried.
TriedOnce ==
  \A a, b \in 1..Len(pending.tried) :
    pending.tried[a] = pending.tried[b] => a = b

\* C22: parseAucfanResults ends with a report, having tried each selector at
\* most once, visited each element at most once per selector, run the
\* fallback pass at most once, and run the filter and the aggregation once
\* each over at most 100 listings; the report is that of the extraction taken
\* as a whole.
C22_TerminatesWithinBounds ==
  /\ [](/\ TriedOnce
        /\ pending.revisits = 0
        /\ pending.fallbackRuns <= 1
        /\ pending.filterRuns <= 1 /\ pending.reportRuns <= 1
        /\ pc \in {"filter", "aggregate", "scanned"} => Len(results) <= 100
        /\ pc = "scanned" =>
             /\ pending.filterRuns = 1 /\ pending.reportRuns = 1
             /\ results = extractPage(fetched)
             /\ result = marketReport(args.query,
                                      filterRecentAndValidPrices(results),
                                      Len(results), FALSE))
  /\ <>(pc = "scanned")

\* A scan that tried two selectors, stopped the second at 100 listings with
\* an element left unvisited, and returned its report.
C22_Witness ==
  /\ pc = "scanned"
  /\ Len(pending.tried) = 2
  /\ Len(results) = 100
  /\ Len(fetched.selectors[2]) > 100
  /\ pending.fallbackRuns = 0


\* The attempt limit is in force: loginAttempts has reached the maximum and
\* the cooldown since the last failed attempt has not passed.
LoginLimited ==
  /\ session.loginAttempts >= MAX_LOGIN_ATTEMPTS
  /\ (session.now - session.lastLoginAttempt) < LOGIN_COOLDOWN

\* The step sends a request to the login endpoint for slot r: the GET of the
\* login page or the POST of the credentials.
SendsLoginRequest(r) ==
  /\ requests'[r].pc \in {"loginPage", "loginPost"}
  /\ requests'[r].pc # requests[r].pc

\* The step ends the request of slot r by the rejection of the attempt limit.
RejectedByLimit(r) ==
  /\ requests[r].pc # "done" /\ requests'[r].pc = "done"
  /\ requests'[r].outcome = [kind |-> "error", message |-> "LoginLimit"]

\* C23: while the attempt limit is in force no GET or POST goes to the login
\* endpoint, whatever the interleaving of the login calls, and a call the
\* limit rejects leaves loginAttempts and lastLoginAttempt as they were, and
\* isLoggedIn as its caller left it.
C23_NoLoginRequestDuringCooldown ==
  [][\A r \in Slots :
       /\ SendsLoginRequest(r) => ~LoginLimited
       /\ RejectedByLimit(r) =>
            /\ session'.loginAttempts = session.loginAttempts
            /\ session'.lastLoginAttempt = session.lastLoginAttempt
            /\ session'.isLoggedIn = session.isLoggedIn
                 \/ (requests[r].pc = "search" /\ ~session'.isLoggedIn)]_vars


\* The step is a failure of loginToAucfan for the request of slot r: its
\* catch branch has recorded the failed attempt.
LoginFails(r) ==
  /\ requests[r].pc \in {"loginPage", "loginPost"}
  /\ session'.loginAttempts = session.loginAttempts + 1
  /\ session'.writer = requests[r].id

\* C24: one call of scrapeAucfanWithLogin logs in at most twice and fetches
\* the search page at most twice, the second time only after the logged-out
\* page and a second login; a failure of a login ends the call with that
\* error, with no further login or fetch.
C24_AtMostOneRetry ==
  /\ [](\A r \in Slots :
          /\ requests[r].logins <= 2 /\ requests[r].fetches <= 2
          /\ Len(requests[r].history) <= requests[r].fetches
          /\ requests[r].fetches = 2 =>
               /\ requests[r].phase = "again"
               /\ isLoginWall(requests[r].history[1].page)
          /\ requests[r].logins = 2 => requests[r].phase = "again")
  /\ [][\A r \in Slots :
          LoginFails(r) =>
            /\ requests'[r].pc = "done"
            /\ requests'[r].outcome = [kind |-> "error", message |-> "LoginFailed"]
            /\ requests'[r].logins = requests[r].logins
            /\ requests'[r].fetches = requests[r].fetches]_vars

\* A call that logged in, met the logged-out page, logged in again and
\* returned the report of its second fetch.
C24_Witness ==
  \E r \in Slots :
    /\ requests[r].pc = "done"
    /\ requests[r].logins = 2 /\ requests[r].fetches = 2
    /\ requests[r].outcome.kind = "report"


\* The step ends a call of scrapeAucfan by its throw: for the main search the
\* handler answers 500.
ScrapeThrows ==
  /\ pc \in {"scraping", "retrying"}
  /\ pc' = "done" /\ response'.status = 500

\* C25: scrapeAucfan retries a failed GET only when the message of the
\* failure names a redirect, with redirects disabled, and never retries the
\* retry; when it throws, the error carries the message of the failure of the
\* first GET; a call sends at most 2 GETs.
C25_RetryOnceOnRedirect ==
  /\ [][/\ pc' \in {"retrying", "similarRetrying"} /\ pc' # pc =>
             /\ pc \in {"scraping", "similar"}
             /\ fetched'.kind = "error" /\ fetched'.message = "redirect"
             /\ fetchCount' = fetchCount + 1
             /\ maxRedirects(pc') = 0
        /\ pc \in {"retrying", "similarRetrying"} =>
             /\ pc' \notin {"retrying", "similarRetrying", "scraping"}
             /\ ~(fetched'.kind = "error" /\ fetched'.message = "redirect")
        /\ ScrapeThrows =>
             response'.error =
               <<"ScrapeFailed",
                 IF pc = "retrying" THEN fetched.message
                 ELSE IF fetched'.kind = "error" THEN fetched'.message
                 ELSE "HTTPError">>]_vars
  /\ [](pc \in {"scraping", "retrying"} => fetchCount <= 2)
  /\ [](pc = "retrying" => fetchCount = 2 /\ fetched.message = "redirect")

\* The first GET failed on a redirect, the retry failed on a timeout, and the
\* error thrown carries the redirect message.
C25_Witness ==
  /\ pc = "done" /\ response # None /\ response.status = 500
  /\ response.error = <<"ScrapeFailed", "redirect">>
  /\ fetched.kind = "error" /\ fetched.message = "timeout"
  /\ fetchCount = 2


SimilarSearching == pc \in {"similar", "similarRetrying"}

\* query, results, count, avgPrice, maxPrice, minPrice
MainReportFields ==
  {"query", "results", "count", "avgPrice", "maxPrice", "minPrice"}

\* C26: the similar-product search runs only for a main report of fewer than
\* 5 listings, over at most 3 keywords none of which is the original query;
\* whatever its GETs end with, processQuery answers with its result, whose
\* main report fields are those of the main report.
C26_SimilarSearchNeverFails ==
  /\ [](SimilarSearching =>
          /\ result.count < 5
          /\ Len(pending) >= 1 /\ Len(pending) <= 3
          /\ Len(pending) + Len(similarProducts) <= 3
          /\ \A i \in 1..Len(pending) : pending[i] # args.modelNumber
          /\ fetchCount <= 2 + 2 * 3)
  /\ [][SimilarSearching =>
          /\ result' = result
          /\ Len(pending') < Len(pending) \/ pc' = "similarRetrying"
          /\ pc' = "done" =>
               /\ response'.status = 200
               /\ \A f \in MainReportFields : response'.body[f] = result[f]]_vars

\* Three keywords were searched, the last search failed twice, and the
\* request is answered with the similar products found before.
C26_Witness ==
  /\ pc = "done" /\ response # None /\ response.status = 200
  /\ fetchCount >= 5
  /\ fetched.kind = "error"
  /\ Len(response.body.similarProducts) = 2
  /\ Len(similarKeywords(args.modelNumber)) = 3

-----------------------------------------------------------------------------
(* The LINE webhook: handleTextMessage of src/server.js and of              *)
(* src/unnamed/part_002, one step from each await to the next              *)

\* The text of a message as its lines; a line is "" (blank), a product name
\* or a number.
MessageTexts ==
  { <<"">>, <<"iPhone 13 Pro">>, <<"iPhone 13 Pro", "80000">>,
    <<"iPhone 13 Pro", "abc">>, <<"", "80000">>, <<"ABC123", "1200">> }

\* parseInt of the digits a line holds (0 when it holds none)
LinePrice(line) ==
  CASE line = "80000" -> 80000
    [] line = "1200" -> 1200
    [] OTHER -> 0

\* parseMessage on a message in the simple form: the model number on the
\* first line, the price on the second.
parseMessage(lines) ==
  LET modelNumber == IF Len(lines) >= 1 THEN lines[1] ELSE ""
      price == IF Len(lines) >= 2 THEN LinePrice(lines[2]) ELSE 0
  IN  IF modelNumber = "" THEN [error |-> "NoModelNumber"]
      ELSE IF price = 0 THEN [error |-> "NoPrice"]
      ELSE [error |-> "", modelNumber |-> modelNumber, price |-> price]

\* What an awaited call of the LINE client or of processQuery throws: an
\* Error with a message, which may name the encoding.
Errors == { [message |-> "failed"], [message |-> "encode failed"] }

\* error.message.includes('文字化け') || error.message.includes('encode')
namesEncoding(error) == error.message = "encode failed"

handlerVariants == {"server.js", "part_002"}

InitLine ==
  /\ pc = "start"
  /\ args \in [text : MessageTexts, variant : handlerVariants]
  /\ pending = <<>>
  /\ response = [promise |-> "pending"]
  /\ result = None /\ judgment = None
  /\ body = None /\ fetched = None /\ fetchCount = 0
  /\ results = <<>> /\ recentResults = None /\ filteredResults = None
  /\ similarProducts = <<>>
  /\ session = None /\ requests = None

LineFrame ==
  UNCHANGED <<body, fetched, fetchCount, results, recentResults,
              filteredResults, similarProducts, args, session, requests>>

\* A call of the LINE client is made: `pending` is the log of the calls.
send(api, kind) == pending' = Append(pending, [api |-> api, kind |-> kind])

\* Catch reached without the push of the failure notice.
SilentCatch(error) ==
  /\ judgment' = error
  /\ response' = [promise |-> "fulfilled"]
  /\ pc' = "settled"
  /\ UNCHANGED <<pending, result>>

\* The catch block up to its await: the failure notice is pushed.
Catch(error) ==
  /\ judgment' = error
  /\ send("push", [type |-> "failure", message |-> error.message,
                   hint |-> args.variant = "server.js" /\ namesEncoding(error)])
  /\ pc' = "pushingFailure"
  /\ UNCHANGED <<response, result>>

\* handleTextMessage up to its first await: client.replyMessage
SendReply ==
  /\ pc = "start"
  /\ send("reply", [type |-> "ack"])
  /\ pc' = "replying"
  /\ UNCHANGED <<response, result, judgment>>
  /\ LineFrame

\* the reply ends; parseMessage; the push of the parse error or the call of
\* processQuery
ReplyEnds ==
  /\ pc = "replying"
  /\ \/ \E error \in Errors : Catch(error)
     \/ /\ result' = parseMessage(args.text)
        /\ IF parseMessage(args.text).error # ""
             THEN /\ send("push", [type |-> "parseError",
                                   message |-> parseMessage(args.text).error])
                  /\ pc' = "pushingParseError"
             ELSE /\ pc' = "processing"
                  /\ UNCHANGED pending
        /\ UNCHANGED <<response, judgment>>
  /\ LineFrame

\* the push of the parse error ends: return
ParseErrorPushEnds ==
  /\ pc = "pushingParseError"
  /\ \/ \E error \in Errors : Catch(error)
     \/ /\ response' = [promise |-> "fulfilled"]
        /\ pc' = "settled"
        /\ UNCHANGED <<pending, result, judgment>>
  /\ LineFrame

\* processQuery ends; formatResultMessage; the push of the result
ProcessQueryEnds ==
  /\ pc = "processing"
  /\ \/ \E error \in Errors : Catch(error)
     \/ /\ send("push", [type |-> "result", modelNumber |-> result.modelNumber])
        /\ pc' = "pushingResult"
        /\ UNCHANGED <<response, result, judgment>>
  /\ LineFrame

\* the push of the result ends
ResultPushEnds ==
  /\ pc = "pushingResult"
  /\ \/ \E error \in Errors : Catch(error)
     \/ /\ response' = [promise |-> "fulfilled"]
        /\ pc' = "settled"
        /\ UNCHANGED <<pending, result, judgment>>
  /\ LineFrame

\* the push of the failure notice ends, well or not: the inner catch logs
FailurePushEnds ==
  /\ pc = "pushingFailure"
  /\ \E ok \in BOOLEAN :
       /\ response' = [promise |-> "fulfilled", noticeDelivered |-> ok]
       /\ pc' = "settled"
  /\ UNCHANGED <<pending, result, judgment>>
  /\ LineFrame

NextLine ==
  \/ SendReply \/ ReplyEnds \/ ParseErrorPushEnds \/ ProcessQueryEnds
  \/ ResultPushEnds \/ FailurePushEnds

\* Every awaited call settles.
SpecLine == InitLine /\ [][NextLine]_vars /\ WF_vars(NextLine)

\* The pushes of a type in the log of the calls.
PushesOf(types) ==
  SelectSeq(pending, LAMBDA m : m.api = "push" /\ m.kind.type \in types)

\* C27: the acknowledgement reply is the first call of the LINE client and
\* the only reply; when no step fails exactly one final push follows (the
\* parse error or the result, never both) and no failure notice; when a step
\* fails exactly one failure notice is pushed, as the last call; and the
\* promise of handleTextMessage is fulfilled, never rejected.
C27_ReplyThenOnePush ==
  /\ [](/\ pending # <<>> => pending[1] = [api |-> "reply", kind |-> [type |-> "ack"]]
        /\ \A i \in 2..Len(pending) : pending[i].api = "push"
        /\ Len(PushesOf({"parseError", "result"})) <= 1
        /\ Len(PushesOf({"failure"})) <= 1
        /\ response.promise # "rejected"
        /\ pc = "settled" =>
             /\ response.promise = "fulfilled"
             /\ IF judgment = None
                  THEN /\ Len(pending) = 2
                       /\ Len(PushesOf({"parseError", "result"})) = 1
                       /\ Len(PushesOf({"failure"})) = 0
                       /\ pending[2].kind.type = "parseError"
                            <=> parseMessage(args.text).error # ""
                  ELSE /\ Len(PushesOf({"failure"})) = 1
                       /\ pending[Len(pending)].kind.type = "failure"
                       /\ pending[Len(pending)].kind.message = judgment.message)
  /\ <>(pc = "settled")

\* The push of the result failed and the failure notice was pushed after it.
C27_Witness ==
  /\ pc = "settled"
  /\ Len(pending) = 3
  /\ pending[2].kind.type = "result"
  /\ pending[3].kind.type = "failure"
  /\ response.promise = "fulfilled"

-----------------------------------------------------------------------------
(* Properties of the judgment beside the reported rate and of the          *)
(* statistics of the report                                                *)

\* C28: in every answered request with a positive acquisition price and a
\* report of count >= 3 and positive avgPrice, the tier of the judgment is
\* the tier of the profitRate reported beside it.
C28_TierAgreesWithReportedRate ==
  (Answered /\ args.auctionPrice > 0 /\ response.body.count >= 3
     /\ response.body.avgPrice > 0) =>
    response.body.judgment.decision = TierOfRate(response.body.profitRate)


\* C29: in every report of parseAucfanResults (both variants) with count > 0,
\* minPrice <= avgPrice <= maxPrice, and minPrice and maxPrice are each the
\* price of a listing of the report.
C29_AverageBetweenListedExtremes ==
  (Reported /\ result.count > 0) =>
    /\ result.minPrice <= result.avgPrice
    /\ result.avgPrice <= result.maxPrice
    /\ \E i \in 1..Len(result.results) : result.results[i].price = result.minPrice
    /\ \E i \in 1..Len(result.results) : result.results[i].price = result.maxPrice

\* A report of the login variant whose average lies strictly between its
\* extremes and is the price of none of its listings.
C29_Witness ==
  /\ pc = "reportedLogin"
  /\ result.count >= 2
  /\ result.minPrice < result.avgPrice
  /\ result.avgPrice < result.maxPrice
  /\ \A i \in 1..Len(result.results) : result.results[i].price # result.avgPrice


\* The bounds the variant that made the report applies to its window.
BoundsOfWindow ==
  IF pc = "reported" THEN iqrBounds(recentResults)
  ELSE iqrBoundsLogin(recentResults)

\* C30: in every report of parseAucfanResults (both variants) made from a
\* window of at least 5 listings, Q1 and Q3 lie inside [lowerBound,
\* upperBound], the range filter keeps at least one listing of the window, and
\* the reported listings are those it keeps, never recentResults.slice(0, 10).
C30_OutlierFallbackUnreachable ==
  (Reported /\ Len(recentResults) >= 5) =>
    LET b == BoundsOfWindow
        finalResults == outlierFilter(recentResults, b)
    IN  /\ b.lower2 <= 2 * b.q1 /\ 2 * b.q1 <= b.upper2
        /\ b.lower2 <= 2 * b.q3 /\ 2 * b.q3 <= b.upper2
        /\ \E i \in 1..Len(finalResults) : finalResults[i].price = b.q1
        /\ \E i \in 1..Len(finalResults) : finalResults[i].price = b.q3
        /\ Len(finalResults) > 0
        /\ filteredResults = finalResults

\* A window of the login variant with Q1 = Q3, so that both bounds are the
\* one price, and with a listing the range rejects.
C30_Witness ==
  /\ pc = "reportedLogin"
  /\ Len(recentResults) >= 5
  /\ iqrBoundsLogin(recentResults).q1 = iqrBoundsLogin(recentResults).q3
  /\ Len(filteredResults) < Len(recentResults)
  /\ Len(filteredResults) > 0

=============================================================================
